---------------------------- MODULE Spec2Model ----------------------------
(***************************************************************************)
(* A model of the release decision engine of knope: the semantic-version   *)
(* bump (src/src/releases/semver.rs) and the resolution of the current     *)
(* versions from Git tags (src/src/releases/git.rs).                       *)
(*                                                                         *)
(* Strings are sequences of one-character strings, so that formatting,     *)
(* splitting, prefix tests and parsing are computed and not assumed.       *)
(* An Option<T> is a sequence of length 0 (None) or 1 (Some).              *)
(***************************************************************************)
EXTENDS Integers, Sequences, FiniteSets, TLC

VARIABLES
    package_version, \* semver.rs: `package_version.version`, the CurrentVersions being bumped
    last,        \* Option: the most recent call of bump (rule, input, outcome)
    before,      \* Option: a summary of the call of bump before `last`
    tags,        \* git.rs: the tag names the repository lists, in listing order
    prefix,      \* git.rs: Option<&str>, the package name given to the resolver
    pos,         \* git.rs: number of tags the `for tag in tags` loop has consumed
    stable_tag,      \* git.rs: `let mut stable`, Option<Version>
    prerelease_tag,  \* git.rs: `let mut prerelease`, Option<Version>
    returned,        \* git.rs: the Option<CurrentVersions> the resolver returned
    pc,          \* git.rs: "loop" while the resolver iterates, "done" once it returned
    commit_messages,      \* conventional_commits.rs: `commit_messages: &[String]`
    package,              \* conventional_commits.rs: `package: &Package` (name, scopes)
    consider_scopes,      \* conventional_commits.rs: `consider_scopes: bool`
    conventional_commits, \* Option: the ConventionalCommits that from_commit_messages returned
    run_type,         \* state.rs: RunType, "DryRun" or "Real"
    packages,         \* state.packages: name, scopes, changelog and current versions of each
    prerelease_label, \* step::PrepareRelease::prerelease_label, Option<Label>
    workflow,         \* workflow.rs: `workflow.steps`
    step_index,       \* workflow.rs: number of steps of the workflow that have run
    status,           \* workflow.rs: "running", "Ok", or the StepError that ended the run
    releases,         \* state.releases: the prepared releases
    analyses,         \* per package: Option, the ConventionalCommits derived for it
    dry_run_stdout,   \* the lines written to the dry-run output
    versioned_files,  \* resource: per package, the version its versioned files hold
    changelogs,       \* resource: per package, the sections added to its changelog
    git_tags,         \* resource: the tags of the repository
    commands_run,     \* resource: the shell commands executed
    changeset_dir,    \* resource: Option, the change files of the directory .changeset
    pending_changes,  \* per package: `package.pending_changes`
    removed_files,    \* the files the last add_releases_from_changeset called remove_file on
    runs,             \* the calls of add_releases_from_changeset made so far
    go_mod,           \* go.rs: the content of the go.mod handed to set_version
    new_version,      \* go.rs: the version set_version is to record
    go_result,        \* go.rs: Option, what set_version returned
    package_files,    \* resource: per package, its versioned files in order
    files_at_start,   \* the versioned files as they were before the run
    rules,            \* per package: Option, the rule its commits give
    package_index,    \* the number of packages prepare_release_for_package handled
    constructed,      \* per package: Option, what Package::new returned
    a_version,        \* version.rs: Option, a Version as constructed
    displayed,        \* version.rs: Option, the text Display gives for it
    from_str,         \* version.rs: Option, what Version::from_str returned for the text
    history,          \* repository: the messages of its commits, oldest first
    refs,             \* repository: its tags, each with the number of commits it holds
    cargo_toml,       \* resource: the versioned files of the package (none or a Cargo.toml)
    release_count,    \* the number of release workflows run on the repository
    last_release      \* Option: what the last release workflow saw and did

bumpVars == <<package_version, last, before>>
tagVars == <<tags, prefix, pos, stable_tag, prerelease_tag, returned, pc>>
commitVars == <<commit_messages, package, consider_scopes, conventional_commits>>
resourceVars == <<versioned_files, changelogs, git_tags, commands_run>>
runVars == <<run_type, packages, prerelease_label, workflow, step_index, status, releases,
             analyses, dry_run_stdout, resourceVars>>
changesetVars == <<changeset_dir, pending_changes, removed_files, runs>>
goVars == <<go_mod, new_version, go_result>>
packageVars == <<package_files, files_at_start, rules, package_index, constructed>>
versionVars == <<a_version, displayed, from_str>>
historyVars == <<history, refs, cargo_toml, release_count, last_release>>
laterVars == <<goVars, packageVars, versionVars, historyVars>>

vars == <<bumpVars, tagVars, commitVars, runVars, changesetVars, laterVars>>

\* What an action of one part of the model leaves alone.
nonBumpVars == <<tagVars, commitVars, runVars, changesetVars, laterVars>>
nonTagVars == <<bumpVars, commitVars, runVars, changesetVars, laterVars>>
nonCommitVars == <<bumpVars, tagVars, runVars, changesetVars, laterVars>>

---------------------------------------------------------------------------
(* Bounds of the model.                                                    *)

MaxMajor == 1
MaxMinor == 1
MaxPatch == 1
MaxSuffix == 1
MaxTags == 3
MaxCommits == 3
MaxRunCommits == 2
MaxChangeFiles == 2
MaxRuns == 3
MaxGoMajor == 3

(* The largest value of the u16 that bump_pre parses the suffix into.      *)
U16Max == 65535

---------------------------------------------------------------------------
(* Options and strings.                                                    *)

None == <<>>
Some(x) == <<x>>
IsSome(o) == Len(o) = 1
Unwrap(o) == o[1]

Digits == <<"0", "1", "2", "3", "4", "5", "6", "7", "8", "9">>
Letters == <<"a", "b", "c", "e", "i", "p", "r", "t", "v", "w", "x">>
\* The characters of the model in ASCII order.
Ascii == <<"-", ".", "/">> \o Digits \o Letters

IsDigit(c) == \E i \in 1..Len(Digits) : Digits[i] = c
DigitVal(c) == (CHOOSE i \in 1..Len(Digits) : Digits[i] = c) - 1
IsLetter(c) == \E i \in 1..Len(Letters) : Letters[i] = c
CharRank(c) == CHOOSE i \in 1..Len(Ascii) : Ascii[i] = c

AllDigits(s) == \A i \in 1..Len(s) : IsDigit(s[i])

RECURSIVE FormatNum(_)
\* Display of an unsigned integer.
FormatNum(n) == IF n < 10 THEN <<Digits[n + 1]>>
                ELSE FormatNum(n \div 10) \o <<Digits[(n % 10) + 1]>>

RECURSIVE DigitsValue(_, _)
\* The number a string of digits denotes (acc: the value of the digits read).
DigitsValue(s, acc) ==
    IF s = <<>> THEN acc ELSE DigitsValue(Tail(s), acc * 10 + DigitVal(Head(s)))

\* The index of the first occurrence of character c in s, 0 if there is none.
IndexOf(s, c) == IF \E i \in 1..Len(s) : s[i] = c
                 THEN CHOOSE i \in 1..Len(s) : s[i] = c /\ \A j \in 1..(i - 1) : s[j] # c
                 ELSE 0

RECURSIVE Split(_, _)
\* str::split(c): the pieces of s between the occurrences of c.
Split(s, c) == LET i == IndexOf(s, c)
               IN IF i = 0 THEN <<s>>
                  ELSE <<SubSeq(s, 1, i - 1)>> \o Split(SubSeq(s, i + 1, Len(s)), c)

\* str::starts_with.
StartsWith(s, p) == Len(p) <= Len(s) /\ SubSeq(s, 1, Len(p)) = p

RECURSIVE ReplaceAll(_, _)
\* str::replace(p, ""): every non-overlapping occurrence of p removed, left to right.
ReplaceAll(s, p) ==
    IF s = <<>> \/ p = <<>> THEN s
    ELSE IF StartsWith(s, p) THEN ReplaceAll(SubSeq(s, Len(p) + 1, Len(s)), p)
    ELSE <<Head(s)>> \o ReplaceAll(Tail(s), p)

\* Lexicographic order of strings by character code (Ord for String).
RECURSIVE StrLess(_, _)
StrLess(a, b) ==
    IF b = <<>> THEN FALSE
    ELSE IF a = <<>> THEN TRUE
    ELSE IF Head(a) # Head(b) THEN CharRank(Head(a)) < CharRank(Head(b))
    ELSE StrLess(Tail(a), Tail(b))

---------------------------------------------------------------------------
(* Versions: semver::Version as the old engine uses it, with the           *)
(* prerelease kept as its string (empty: a stable version).                *)

Version(major, minor, patch, pre) ==
    [major |-> major, minor |-> minor, patch |-> patch, pre |-> pre]

\* CurrentVersions { stable, prerelease }
CurrentVersions(s, p) == [stable |-> s, prerelease |-> p]

\* CurrentVersions::latest
latest(cv) == IF IsSome(cv.prerelease) THEN Unwrap(cv.prerelease) ELSE cv.stable

\* A semver identifier of a prerelease: not empty, of [0-9A-Za-z-], and with no
\* leading zero when it is numeric.
ValidIdentifier(id) ==
    /\ id # <<>>
    /\ \A i \in 1..Len(id) : IsDigit(id[i]) \/ IsLetter(id[i]) \/ id[i] = "-"
    /\ (AllDigits(id) /\ Len(id) > 1) => id[1] # "0"

\* Prerelease::new succeeds.
ValidPrerelease(pre) ==
    LET ids == Split(pre, ".") IN \A i \in 1..Len(ids) : ValidIdentifier(ids[i])

\* Display for semver::Version.
FormatVersion(v) ==
    FormatNum(v.major) \o <<".">> \o FormatNum(v.minor) \o <<".">> \o FormatNum(v.patch)
        \o (IF v.pre = <<>> THEN <<>> ELSE <<"-">> \o v.pre)

\* A numeric component of a version string: digits with no leading zero.
ValidNumber(part) ==
    part # <<>> /\ AllDigits(part) /\ (Len(part) > 1 => part[1] # "0")

\* Version::parse of semver: Some(version) of MAJOR.MINOR.PATCH or
\* MAJOR.MINOR.PATCH-PRERELEASE, None for anything else.
ParseVersion(s) ==
    LET dash == IndexOf(s, "-")
        core == IF dash = 0 THEN s ELSE SubSeq(s, 1, dash - 1)
        pre == IF dash = 0 THEN <<>> ELSE SubSeq(s, dash + 1, Len(s))
        nums == Split(core, ".")
    IN IF /\ Len(nums) = 3
          /\ \A i \in 1..3 : ValidNumber(nums[i])
          /\ dash # 0 => ValidPrerelease(pre)
       THEN Some(Version(DigitsValue(nums[1], 0), DigitsValue(nums[2], 0),
                         DigitsValue(nums[3], 0), pre))
       ELSE None

---------------------------------------------------------------------------
(* The order of versions (version.rs: Ord for StableVersion, Version and   *)
(* Prerelease). Comparisons return -1, 0 or 1.                             *)

IntCmp(a, b) == IF a < b THEN -1 ELSE IF a > b THEN 1 ELSE 0

\* Ord for StableVersion: major, then minor, then patch.
StableCmp(a, b) ==
    IF a.major # b.major THEN IntCmp(a.major, b.major)
    ELSE IF a.minor # b.minor THEN IntCmp(a.minor, b.minor)
    ELSE IntCmp(a.patch, b.patch)

\* FromStr for Prerelease: split_once('.') into label and numeric version.
ParsePrerelease(pre) ==
    LET dot == IndexOf(pre, ".")
        rest == SubSeq(pre, dot + 1, Len(pre))
    IN IF dot = 0 \/ rest = <<>> \/ ~AllDigits(rest) THEN None
       ELSE Some([label |-> SubSeq(pre, 1, dot - 1), version |-> DigitsValue(rest, 0)])

\* Ord for Prerelease: the label as a string, then the version.
PrereleaseCmp(a, b) ==
    IF a.label # b.label THEN (IF StrLess(a.label, b.label) THEN -1 ELSE 1)
    ELSE IntCmp(a.version, b.version)

\* A version the order is defined on: stable, or with a prerelease label.n.
Ordered(v) == v.pre = <<>> \/ IsSome(ParsePrerelease(v.pre))

\* Ord for Version: the stable components; then a stable version above every
\* prerelease of it; then the prerelease components.
VersionCmp(a, b) ==
    IF StableCmp(a, b) # 0 THEN StableCmp(a, b)
    ELSE IF a.pre = <<>> /\ b.pre = <<>> THEN 0
    ELSE IF a.pre = <<>> THEN 1
    ELSE IF b.pre = <<>> THEN -1
    ELSE PrereleaseCmp(Unwrap(ParsePrerelease(a.pre)), Unwrap(ParsePrerelease(b.pre)))

---------------------------------------------------------------------------
(* Rules (semver.rs: Rule, ConventionalRule).                              *)

ConventionalRules == {"Major", "Minor", "Patch"}

\* Rule::Major, Rule::Minor, Rule::Patch, Rule::Release carry nothing.
PlainRule(name) == [rule |-> name, label |-> <<>>, stable_rule |-> "Patch"]

\* Rule::Pre { label, stable_rule }
PreRule(label, stable_rule) == [rule |-> "Pre", label |-> label, stable_rule |-> stable_rule]

\* impl From<ConventionalRule> for Rule
RuleFrom(conventional_rule) == PlainRule(conventional_rule)

\* The outcome of a call: Ok(value), Err(err) or a panic; value is the new
\* CurrentVersions of an Ok and the untouched input otherwise.
Ok(value) == [kind |-> "Ok", value |-> value, err |-> ""]
Err(err, input) == [kind |-> "Err", value |-> input, err |-> err]
Panic(input) == [kind |-> "Panic", value |-> input, err |-> "overflow"]

\* str::parse::<u16>() of one part of the prerelease string: Some(n) or None.
ParseU16(part) ==
    IF part = <<>> \/ ~AllDigits(part) THEN None
    ELSE LET n == DigitsValue(part, 0)
         IN IF n > U16Max THEN None ELSE Some(n)

\* `pre_version + 1` on a u16: Some(sum); at u16::MAX None (the panic of a build
\* with overflow checks, as debug builds are) or Some(0) (the wrap of a build without).
U16Increment(pre_version) ==
    IF pre_version < U16Max THEN {Some(pre_version + 1)} ELSE {None, Some(0)}

\* What the closure of bump_pre (lines 477-491) yields, as a set over the outcomes
\* of the u16 addition: how = "next" with the number of the next prerelease when
\* the existing prerelease continues, "restart" when the closure returns None,
\* "panic" when the addition panics.
PreNumber(how, n) == [how |-> how, n |-> n]

\* Faulty variant: the numbering always restarts.
NextPreNumber_Restart(prerelease, next_stable, label) == {PreNumber("restart", 0)}

NextPreNumber(prerelease, next_stable, label) ==
    IF ~IsSome(prerelease) THEN {PreNumber("restart", 0)}
    ELSE LET p == Unwrap(prerelease)
             parts == Split(p.pre, ".")
         IN IF p.major # next_stable.major \/ p.minor # next_stable.minor
                  \/ p.patch # next_stable.patch
            THEN {PreNumber("restart", 0)}
            ELSE IF Len(parts) # 2 \/ parts[1] # label THEN {PreNumber("restart", 0)}
            ELSE IF ~IsSome(ParseU16(parts[2])) THEN {PreNumber("restart", 0)}
            ELSE {IF IsSome(n) THEN PreNumber("next", Unwrap(n)) ELSE PreNumber("panic", 0) :
                     n \in U16Increment(Unwrap(ParseU16(parts[2])))}

\* Faulty variant: the stable version follows the prerelease.
PreResult_Bumped(st, next_prerelease) ==
    CurrentVersions([next_prerelease EXCEPT !.pre = <<>>], Some(next_prerelease))

\* Ok(CurrentVersions { stable, prerelease: Some(next_prerelease) }) of bump_pre.
PreResult(st, next_prerelease) == CurrentVersions(st, Some(next_prerelease))

RECURSIVE bump(_, _)

\* bump_pre(stable_only, prerelease, label, stable_rule): the set of outcomes.
bump_pre(stable_only, prerelease, label, stable_rule) ==
    LET input == CurrentVersions(stable_only.stable, prerelease)
        st == stable_only.stable
        inner == bump(stable_only, RuleFrom(stable_rule))
    IN UNION {
         IF o.kind # "Ok" THEN {[o EXCEPT !.value = input]}
         ELSE LET next_stable == o.value.stable
              IN { IF n.how = "panic" THEN Panic(input)
                   ELSE LET prerelease_version ==
                                label \o <<".">> \o
                                    (IF n.how = "next" THEN FormatNum(n.n) ELSE <<"0">>)
                        IN IF ~ValidPrerelease(prerelease_version)
                           THEN Err("InvalidPreReleaseVersion", input)
                           ELSE Ok(PreResult(st, [next_stable EXCEPT !.pre = prerelease_version]))
                   : n \in NextPreNumber(prerelease, next_stable, label) }
         : o \in inner }

\* Faulty variant: 0.x versions bumped like any other.
is_0_Never(st) == FALSE

\* let is_0 = stable.major == 0
is_0(st) == st.major = 0

\* Faulty variant: the bump starts from the latest version.
BumpBase_Latest(version) == [latest(version) EXCEPT !.pre = <<>>]

\* let stable = &mut version.stable: the version the primary rules increment.
BumpBase(version) == version.stable

\* Faulty variant: the prerelease is left in place.
TakePrerelease_Keep(version) == version

\* version.prerelease.take(): what is left in `version`.
TakePrerelease(version) == [version EXCEPT !.prerelease = None]

\* Faulty variant: a Release without a prerelease is let through.
bump_release_Lenient(taken, prerelease) ==
    IF ~IsSome(prerelease) THEN {Ok(taken)}
    ELSE {Ok([taken EXCEPT !.stable = [Unwrap(prerelease) EXCEPT !.pre = <<>>]])}

\* The arm (Rule::Release, _) of bump: `taken` is version after the take().
bump_release(taken, prerelease) ==
    IF ~IsSome(prerelease)
    THEN {Err("InvalidPreReleaseVersion", CurrentVersions(taken.stable, prerelease))}
    ELSE {Ok([taken EXCEPT !.stable = [Unwrap(prerelease) EXCEPT !.pre = <<>>]])}

\* bump(version, rule): the set of outcomes (one, except where a u16 overflows).
bump(version, rule) ==
    LET st == BumpBase(version)
        zero == is_0(st)
        prerelease == version.prerelease
        taken == TakePrerelease(version)
    IN CASE (rule.rule = "Major" /\ ~zero) ->
              {Ok([taken EXCEPT !.stable = Version(st.major + 1, 0, 0, <<>>)])}
         [] (rule.rule = "Minor" /\ ~zero) \/ (rule.rule = "Major" /\ zero) ->
              {Ok([taken EXCEPT !.stable = Version(st.major, st.minor + 1, 0, <<>>)])}
         [] rule.rule = "Patch" \/ (rule.rule = "Minor" /\ zero) ->
              {Ok([taken EXCEPT !.stable = Version(st.major, st.minor, st.patch + 1, <<>>)])}
         [] rule.rule = "Release" -> bump_release(taken, prerelease)
         [] rule.rule = "Pre" -> bump_pre(taken, prerelease, rule.label, rule.stable_rule)

---------------------------------------------------------------------------
(* The bump of a package's version, call after call (semver.rs:           *)
(* bump_version applies bump to the package's current versions).           *)

StableVersions ==
    {Version(a, b, c, <<>>) : a \in 0..MaxMajor, b \in 0..MaxMinor, c \in 0..MaxPatch}

\* Labels that are valid semver identifiers, and the labels a rule may carry:
\* those and the empty label, which Prerelease::new rejects.
Labels == {<<"r", "c">>, <<"b", "e", "t", "a">>}
RuleLabels == Labels \cup {<<>>}

\* The prerelease strings a version file or tag may hold at the start: label.n
\* with small n, with n at and above the u16 range, and strings that are valid
\* semver but not of the form label.n.
InitialPres ==
    {l \o <<".">> \o FormatNum(n) : l \in Labels, n \in 0..MaxSuffix}
        \cup {<<"r", "c", ".">> \o FormatNum(n) : n \in {U16Max, U16Max + 1}}
        \cup {<<"r", "c">>, <<"r", "c", ".", "0", ".", "0">>, <<"r", "c", ".", "x">>}

\* The versions the prerelease of a package at stable version s may target at the
\* start: s itself, each of the three next versions, and the stale 0.0.0.
InitialTargets(s) ==
    {s, Version(0, 0, 0, <<>>), Version(s.major + 1, 0, 0, <<>>),
     Version(s.major, s.minor + 1, 0, <<>>), Version(s.major, s.minor, s.patch + 1, <<>>)}

InitialVersions ==
    {CurrentVersions(s, None) : s \in StableVersions}
        \cup UNION {{CurrentVersions(s, Some([t EXCEPT !.pre = p])) :
                       t \in InitialTargets(s), p \in InitialPres} : s \in StableVersions}

Rules ==
    {PlainRule(r) : r \in ConventionalRules \cup {"Release"}}
        \cup {PreRule(l, r) : l \in RuleLabels, r \in ConventionalRules}

\* One call of bump, as the model remembers it.
Step(rule, input, outcome) == [rule |-> rule, input |-> input, outcome |-> outcome]

\* What the model remembers of the call before the last one: its rule, whether
\* its input had no prerelease, and how it ended.
Summary(step) ==
    [rule |-> step.rule, fresh |-> ~IsSome(step.input.prerelease), kind |-> step.outcome.kind]

\* The numeric suffix of a prerelease string of the form label.n, -1 otherwise.
SuffixOf(pre) ==
    LET parts == Split(pre, ".")
    IN IF Len(parts) = 2 /\ parts[2] # <<>> /\ AllDigits(parts[2])
       THEN DigitsValue(parts[2], 0)
       ELSE -1

\* The model follows a package while its stable version and the suffix of its
\* prerelease stay within the bounds (or at the edge of the u16 range).
BumpInBounds(cv) ==
    /\ cv.stable.major <= MaxMajor
    /\ cv.stable.minor <= MaxMinor
    /\ cv.stable.patch <= MaxPatch
    /\ IsSome(cv.prerelease) =>
          LET n == SuffixOf(Unwrap(cv.prerelease).pre) IN n <= MaxSuffix \/ n >= U16Max

\* No go.mod is being set.
GoIdle ==
    /\ go_mod = <<>>
    /\ new_version = [major |-> 0, minor |-> 0, patch |-> 0, pre |-> <<>>]
    /\ go_result = <<>>

\* No package is being constructed or bumped.
PackageIdle ==
    /\ package_files = <<>>
    /\ files_at_start = <<>>
    /\ rules = <<>>
    /\ package_index = 0
    /\ constructed = <<>>

\* No version is being formatted or parsed.
VersionIdle ==
    /\ a_version = <<>>
    /\ displayed = <<>>
    /\ from_str = <<>>

\* No repository history is being released.
HistoryIdle ==
    /\ history = <<>>
    /\ refs = {}
    /\ cargo_toml = <<>>
    /\ release_count = 0
    /\ last_release = <<>>

\* The parts of the model that follow the release run are not in use.
LaterIdle == GoIdle /\ PackageIdle /\ VersionIdle /\ HistoryIdle

\* No commit analysis is under way.
CommitsIdle ==
    /\ commit_messages = <<>>
    /\ package = [name |-> None, scopes |-> None]
    /\ consider_scopes = FALSE
    /\ conventional_commits = None

\* No workflow is running.
RunIdle ==
    /\ run_type = "Real"
    /\ packages = <<>>
    /\ prerelease_label = None
    /\ workflow = <<>>
    /\ step_index = 0
    /\ status = "idle"
    /\ releases = <<>>
    /\ analyses = <<>>
    /\ dry_run_stdout = <<>>
    /\ versioned_files = <<>>
    /\ changelogs = <<>>
    /\ git_tags = {}
    /\ commands_run = <<>>
    /\ changeset_dir = None
    /\ pending_changes = <<>>
    /\ removed_files = <<>>
    /\ runs = <<>>

TagsIdle ==
    /\ tags = <<>>
    /\ prefix = None
    /\ pos = 0
    /\ stable_tag = None
    /\ prerelease_tag = None
    /\ returned = None
    /\ pc = "idle"

InitBump ==
    /\ package_version \in InitialVersions
    /\ last = None
    /\ before = None
    /\ TagsIdle
    /\ CommitsIdle
    /\ RunIdle
    /\ LaterIdle

\* package_version.version = bump(package_version.version, rule)?
\* An Err or a panic leaves the version as it was.
Bump(rule) ==
    /\ BumpInBounds(package_version)
    /\ \E outcome \in bump(package_version, rule) :
          /\ package_version' = outcome.value
          /\ last' = Some(Step(rule, package_version, outcome))
    /\ before' = IF IsSome(last) THEN Some(Summary(Unwrap(last))) ELSE None
    /\ UNCHANGED nonBumpVars

NextBump == \E rule \in Rules : Bump(rule)

SpecBump == InitBump /\ [][NextBump]_vars

---------------------------------------------------------------------------
(* The resolution of the current versions from the tags (git.rs:          *)
(* get_current_versions_from_tag), one tag of the loop at a time.          *)

\* tag_name(version, package_name): "v<version>" or "<name>/v<version>".
tag_name(v, package_name) ==
    (IF IsSome(package_name) THEN Unwrap(package_name) \o <<"/", "v">> ELSE <<"v">>)
        \o FormatVersion(v)

\* let pattern = prefix.map_or_else(|| "v", |prefix| format!("{}/v", prefix))
Pattern(p) == IF IsSome(p) THEN Unwrap(p) \o <<"/", "v">> ELSE <<"v">>

\* The package names of the model: no name, and the package "p".
PackageNames == {None, Some(<<"p">>)}

\* The tags a repository of the model may hold: releases and prereleases of the
\* unnamed package, one of them with the label "preview", two tags of the
\* package "p", a version without the "v" and a tag that is no version.
TagPool ==
    {tag_name(v, None) :
        v \in {Version(1, 0, 0, <<>>), Version(1, 1, 0, <<>>),
               Version(1, 0, 0, <<"r", "c", ".", "1">>),
               Version(1, 1, 0, <<"r", "c", ".", "1">>),
               Version(2, 0, 0, <<"r", "c", ".", "0">>),
               Version(1, 0, 0, <<"p", "r", "e", "v", "i", "e", "w", ".", "1">>)}}
        \cup {tag_name(v, Some(<<"p">>)) :
                v \in {Version(1, 1, 0, <<>>), Version(1, 0, 0, <<>>)}}
        \cup {<<"1", ".", "0", ".", "0">>, <<"v", "x">>}

RECURSIVE TagLists(_)
\* The lists of at most n tags of the pool, in any order and with repetitions.
TagLists(n) ==
    IF n = 0 THEN {<<>>}
    ELSE LET shorter == TagLists(n - 1)
         IN shorter \cup {Append(l, t) : l \in {x \in shorter : Len(x) = n - 1}, t \in TagPool}

\* The two variables of the loop.
Found(s, p) == [stable |-> s, prerelease |-> p]

\* The body of `for tag in tags` (lines 72-83).
TagStep(found, p, tag) ==
    IF ~StartsWith(tag, Pattern(p)) THEN found
    ELSE LET parsed == ParseVersion(ReplaceAll(tag, Pattern(p)))
         IN IF ~IsSome(parsed) THEN found
            ELSE IF Unwrap(parsed).pre = <<>> THEN Found(parsed, None)
            ELSE IF IsSome(found.prerelease) THEN found
            ELSE Found(found.stable, parsed)

\* Ok(stable.map(|stable| CurrentVersions { stable, prerelease }))
Returned(found) ==
    IF IsSome(found.stable)
    THEN Some(CurrentVersions(Unwrap(found.stable), found.prerelease))
    ELSE None

RECURSIVE Fold(_, _, _)
Fold(found, p, list) ==
    IF list = <<>> THEN found ELSE Fold(TagStep(found, p, Head(list)), p, Tail(list))

\* get_current_versions_from_tag(prefix) on a repository listing `list`.
get_current_versions_from_tag(p, list) == Returned(Fold(Found(None, None), p, list))

BumpIdle ==
    /\ package_version = CurrentVersions(Version(0, 0, 0, <<>>), None)
    /\ last = None
    /\ before = None

InitTags ==
    /\ tags \in TagLists(MaxTags)
    /\ prefix \in PackageNames
    /\ pos = 0
    /\ stable_tag = None
    /\ prerelease_tag = None
    /\ returned = None
    /\ pc = "loop"
    /\ BumpIdle
    /\ CommitsIdle
    /\ RunIdle
    /\ LaterIdle

\* One iteration of the loop.
NextTag ==
    /\ pc = "loop"
    /\ pos < Len(tags)
    /\ LET found == TagStep(Found(stable_tag, prerelease_tag), prefix, tags[pos + 1])
       IN /\ stable_tag' = found.stable
          /\ prerelease_tag' = found.prerelease
    /\ pos' = pos + 1
    /\ UNCHANGED <<tags, prefix, returned, pc>>
    /\ UNCHANGED nonTagVars

\* The loop is over: the function returns.
Return ==
    /\ pc = "loop"
    /\ pos = Len(tags)
    /\ returned' = Returned(Found(stable_tag, prerelease_tag))
    /\ pc' = "done"
    /\ UNCHANGED <<tags, prefix, pos, stable_tag, prerelease_tag>>
    /\ UNCHANGED nonTagVars

NextTags == NextTag \/ Return

SpecTags == InitTags /\ [][NextTags]_vars

---------------------------------------------------------------------------
(* Properties of bump, stated on the calls the model remembers.            *)

PrimaryRules == {"Major", "Minor", "Patch"}

\* The last call of bump, when there is one.
Called == IsSome(last)
LastRule == Unwrap(last).rule
LastInput == Unwrap(last).input
LastOutcome == Unwrap(last).outcome
LastOk == Called /\ LastOutcome.kind = "Ok"

\* The stable version a primary rule is to yield from stable version s.
ExpectedStable(s, r) ==
    IF s.major >= 1
    THEN CASE r = "Major" -> Version(s.major + 1, 0, 0, <<>>)
           [] r = "Minor" -> Version(s.major, s.minor + 1, 0, <<>>)
           [] r = "Patch" -> Version(s.major, s.minor, s.patch + 1, <<>>)
    ELSE CASE r = "Major" -> Version(0, s.minor + 1, 0, <<>>)
           [] r = "Minor" -> Version(0, s.minor, s.patch + 1, <<>>)
           [] r = "Patch" -> Version(0, s.minor, s.patch + 1, <<>>)

\* C1: a bump by Major, Minor or Patch succeeds and returns the stable version
\* with the component of the rule incremented and the lower ones reset, where at
\* major 0 Major increments minor and Minor increments patch.
C1_PrimaryBump ==
    (Called /\ LastRule.rule \in PrimaryRules) =>
        /\ LastOutcome.kind = "Ok"
        /\ package_version.stable = ExpectedStable(LastInput.stable, LastRule.rule)

\* The last call was a Major bump of a 0.x version with a non-zero patch, and
\* it raised the minor component and reset the patch.
C1_Witness ==
    /\ LastOk
    /\ LastRule.rule = "Major"
    /\ LastInput.stable.major = 0
    /\ LastInput.stable.patch > 0
    /\ package_version.stable = Version(0, LastInput.stable.minor + 1, 0, <<>>)

\* C2: a bump by Major, Minor or Patch returns no prerelease, and the stable
\* version it returns is the one the same rule yields from the same stable
\* version without a prerelease.
C2_PrimaryClearsPrerelease ==
    (LastOk /\ LastRule.rule \in PrimaryRules) =>
        /\ package_version.prerelease = None
        /\ \E o \in bump(CurrentVersions(LastInput.stable, None), LastRule) :
              o.kind = "Ok" /\ o.value.stable = package_version.stable

\* A primary rule was applied to versions with a prerelease that targets another
\* version than the one the rule yields.
C2_Witness ==
    /\ LastOk
    /\ LastRule.rule \in PrimaryRules
    /\ IsSome(LastInput.prerelease)
    /\ StableCmp(Unwrap(LastInput.prerelease), package_version.stable) # 0
    /\ package_version.prerelease = None

\* The prerelease string label.n.
PreString(label, n) == label \o <<".">> \o FormatNum(n)

\* The prerelease Pre{label, stable_rule} is to return on input cv: the candidate
\* with label.(n+1) when cv has the prerelease candidate-label.n, else with label.0.
ExpectedPrerelease(cv, label, stable_rule) ==
    LET candidate == ExpectedStable(cv.stable, stable_rule)
        continues ==
            /\ IsSome(cv.prerelease)
            /\ StableCmp(Unwrap(cv.prerelease), candidate) = 0
            /\ IsSome(ParsePrerelease(Unwrap(cv.prerelease).pre))
            /\ Unwrap(ParsePrerelease(Unwrap(cv.prerelease).pre)).label = label
    IN [candidate EXCEPT !.pre =
            IF continues
            THEN PreString(label, Unwrap(ParsePrerelease(Unwrap(cv.prerelease).pre)).version + 1)
            ELSE PreString(label, 0)]

\* C3: a bump by Pre{label, stable_rule} returns the prerelease
\* candidate-label.(n+1) when the existing prerelease is candidate-label.n, and
\* candidate-label.0 in every other case.
C3_PreSuffix ==
    (LastOk /\ LastRule.rule = "Pre") =>
        package_version.prerelease =
            Some(ExpectedPrerelease(LastInput, LastRule.label, LastRule.stable_rule))

\* C3 on inputs whose existing suffix, if any, is below the u16 range: what the
\* code does meet.
C3_PreSuffixWithinU16 ==
    (/\ LastOk
     /\ LastRule.rule = "Pre"
     /\ IsSome(LastInput.prerelease) => SuffixOf(Unwrap(LastInput.prerelease).pre) < U16Max) =>
        package_version.prerelease =
            Some(ExpectedPrerelease(LastInput, LastRule.label, LastRule.stable_rule))

\* C4: a bump by Pre leaves the stable version as it was, however the call ends.
C4_PreKeepsStable ==
    (Called /\ LastRule.rule = "Pre") => package_version.stable = LastInput.stable

\* A Pre bump has returned a prerelease for a version above the unchanged stable one.
C4_Witness ==
    /\ LastOk
    /\ LastRule.rule = "Pre"
    /\ IsSome(package_version.prerelease)
    /\ StableCmp(Unwrap(package_version.prerelease), LastInput.stable) > 0
    /\ package_version.stable = LastInput.stable

\* C5: a bump by Release succeeds exactly when there is a prerelease; it then
\* returns the prerelease without its suffix as the stable version and no
\* prerelease; otherwise it fails with InvalidPreReleaseVersion and the versions
\* stay as they were.
C5_Release ==
    (Called /\ LastRule.rule = "Release") =>
        /\ LastOutcome.kind = "Ok" <=> IsSome(LastInput.prerelease)
        /\ LastOutcome.kind = "Ok" =>
              package_version =
                  CurrentVersions([Unwrap(LastInput.prerelease) EXCEPT !.pre = <<>>], None)
        /\ LastOutcome.kind # "Ok" =>
              /\ LastOutcome.kind = "Err"
              /\ LastOutcome.err = "InvalidPreReleaseVersion"
              /\ package_version = LastInput

\* A Release has promoted a prerelease whose target differs from the stable version.
C5_Witness ==
    /\ LastOk
    /\ LastRule.rule = "Release"
    /\ package_version.stable # LastInput.stable
    /\ package_version.prerelease = None

\* A Release without a prerelease has failed.
C5_WitnessErr ==
    /\ Called
    /\ LastRule.rule = "Release"
    /\ LastOutcome.kind = "Err"

\* The label and the numeric suffix of the prerelease of cv (a prerelease label.n).
LabelIn(cv) == Unwrap(ParsePrerelease(Unwrap(cv.prerelease).pre)).label
SuffixIn(cv) == Unwrap(ParsePrerelease(Unwrap(cv.prerelease).pre)).version

\* Two successful calls by the same Pre rule, the first on versions without a
\* prerelease, are the last two calls.
TwiceSamePre ==
    /\ IsSome(before)
    /\ Unwrap(before).rule.rule = "Pre"
    /\ Unwrap(before).fresh
    /\ Unwrap(before).kind = "Ok"
    /\ LastOk
    /\ LastRule = Unwrap(before).rule

\* The first call returned suffix 0 and the second suffix 1 for the same target.
ZeroThenOne ==
    /\ SuffixIn(LastInput) = 0
    /\ SuffixIn(package_version) = 1
    /\ LabelIn(LastInput) = LastRule.label
    /\ LabelIn(package_version) = LastRule.label
    /\ StableCmp(Unwrap(package_version.prerelease), Unwrap(LastInput.prerelease)) = 0

\* The next call is a successful Pre with the same stable rule and another label.
ThenOtherLabel ==
    /\ IsSome(last')
    /\ Unwrap(last').rule.rule = "Pre"
    /\ Unwrap(last').rule.stable_rule = LastRule.stable_rule
    /\ Unwrap(last').rule.label # LastRule.label
    /\ Unwrap(last').outcome.kind = "Ok"

\* C6: from versions without a prerelease, Pre{L, R} twice yields the suffixes 0
\* and then 1 for the same target version, and a following Pre{L2, R} with another
\* label yields suffix 0 again, for the same target.
C6_PrereleaseSequence ==
    /\ [](TwiceSamePre => ZeroThenOne)
    /\ [][(TwiceSamePre /\ ThenOtherLabel) =>
            /\ SuffixIn(package_version') = 0
            /\ LabelIn(package_version') = Unwrap(last').rule.label
            /\ StableCmp(Unwrap(package_version'.prerelease),
                         Unwrap(package_version.prerelease)) = 0]_vars

\* The third call has happened: a Pre with another label was applied to the
\* prerelease label.1 that the second call returned, and returned suffix 0.
C6_Witness ==
    /\ IsSome(before)
    /\ Unwrap(before).rule.rule = "Pre"
    /\ ~Unwrap(before).fresh
    /\ Unwrap(before).kind = "Ok"
    /\ LastOk
    /\ LastRule.rule = "Pre"
    /\ LastRule.stable_rule = Unwrap(before).rule.stable_rule
    /\ LastRule.label # Unwrap(before).rule.label
    /\ IsSome(LastInput.prerelease)
    /\ SuffixOf(Unwrap(LastInput.prerelease).pre) = 1
    /\ LabelIn(LastInput) = Unwrap(before).rule.label
    /\ SuffixOf(Unwrap(package_version.prerelease).pre) = 0

\* The prerelease of cv, if any, targets a version that is not below its stable one.
TargetsAhead(cv) ==
    IsSome(cv.prerelease) => StableCmp(Unwrap(cv.prerelease), cv.stable) >= 0

\* C7 as claimed: a successful bump of versions whose prerelease is not behind
\* returns versions whose latest version is not lower than the latest version of
\* the input, and a Major bump of versions without a prerelease a greater one.
\* Stated on inputs whose suffix is below the u16 range, so that a violation does
\* not rest on the overflow of C3.
C7_NeverDecreases ==
    (/\ LastOk
     /\ TargetsAhead(LastInput)
     /\ Ordered(latest(LastInput))
     /\ Ordered(latest(package_version))
     /\ IsSome(LastInput.prerelease) => SuffixOf(Unwrap(LastInput.prerelease).pre) < U16Max) =>
        /\ VersionCmp(latest(package_version), latest(LastInput)) >= 0
        /\ (LastRule.rule = "Major" /\ ~IsSome(LastInput.prerelease)) =>
              VersionCmp(latest(package_version), latest(LastInput)) > 0

\* C7 as amended: a successful bump of versions whose prerelease is not behind
\* returns versions whose latest version is not lower than the stable version of
\* the input; on versions without a prerelease the latest version returned is
\* greater than the input's, whatever the rule.
C7_NeverBelowStable ==
    (LastOk /\ TargetsAhead(LastInput)) =>
        /\ VersionCmp(latest(package_version), LastInput.stable) >= 0
        /\ ~IsSome(LastInput.prerelease) =>
              VersionCmp(latest(package_version), latest(LastInput)) > 0

\* A bump has returned a latest version below the prerelease it was given, which
\* was ahead of the stable version, and not below that stable version.
C7_Witness ==
    /\ LastOk
    /\ IsSome(LastInput.prerelease)
    /\ StableCmp(Unwrap(LastInput.prerelease), LastInput.stable) > 0
    /\ StableCmp(latest(package_version), Unwrap(LastInput.prerelease)) < 0
    /\ VersionCmp(latest(package_version), LastInput.stable) > 0

---------------------------------------------------------------------------
(* Properties of the resolution of the current versions from the tags.     *)

Range(list) == {list[i] : i \in 1..Len(list)}

\* The resolver has returned Some(CurrentVersions).
Resolved == pc = "done" /\ IsSome(returned)

\* The versions without a prerelease that the tags with the prefix of package p
\* parse to once the prefix is taken off.
StableCandidates(p, list) ==
    LET stripped(t) == SubSeq(t, Len(Pattern(p)) + 1, Len(t))
    IN {Unwrap(ParseVersion(stripped(t))) :
          t \in {u \in Range(list) :
                   /\ StartsWith(u, Pattern(p))
                   /\ IsSome(ParseVersion(stripped(u)))
                   /\ Unwrap(ParseVersion(stripped(u))).pre = <<>>}}

rc(n) == <<"r", "c", ".">> \o FormatNum(n)

\* C8: whatever the tags and their order, a prerelease the resolver returns is
\* greater than the stable version it returns; the tags v1.0.0 and v1.1.0-rc.1
\* give stable 1.0.0 with prerelease 1.1.0-rc.1, and with v1.1.0 added they give
\* stable 1.1.0 and no prerelease.
C8_NoStalePrerelease ==
    pc = "done" =>
        /\ (IsSome(returned) /\ IsSome(Unwrap(returned).prerelease)) =>
              VersionCmp(Unwrap(Unwrap(returned).prerelease), Unwrap(returned).stable) > 0
        /\ (prefix = None
              /\ Range(tags) = {tag_name(Version(1, 0, 0, <<>>), None),
                                tag_name(Version(1, 1, 0, rc(1)), None)}) =>
              returned = Some(CurrentVersions(Version(1, 0, 0, <<>>),
                                              Some(Version(1, 1, 0, rc(1)))))
        /\ (prefix = None
              /\ Range(tags) = {tag_name(Version(1, 0, 0, <<>>), None),
                                tag_name(Version(1, 1, 0, rc(1)), None),
                                tag_name(Version(1, 1, 0, <<>>), None)}) =>
              returned = Some(CurrentVersions(Version(1, 1, 0, <<>>), None))

\* C9: when a tag of the package parses as a version without a prerelease, the
\* stable version the resolver returns is the greatest of these versions.
C9_StableIsMaximum ==
    (pc = "done" /\ StableCandidates(prefix, tags) # {}) =>
        /\ IsSome(returned)
        /\ Unwrap(returned).stable \in StableCandidates(prefix, tags)
        /\ \A c \in StableCandidates(prefix, tags) : StableCmp(Unwrap(returned).stable, c) >= 0

\* The list with its elements in the order f, a permutation of its indices.
Permuted(list, f) == [i \in 1..Len(list) |-> list[f[i]]]

\* C10: the resolver returns the same for every permutation of the tags.
C10_OrderIndependent ==
    pc = "done" =>
        \A f \in Permutations(1..Len(tags)) :
            get_current_versions_from_tag(prefix, Permuted(tags, f)) = returned

---------------------------------------------------------------------------
(* Conventional commits (src/src/releases/conventional_commits.rs).        *)
(* A commit message is a string; Commit::parse is computed on its          *)
(* characters for messages of the form                                     *)
(*   type[(scope)][!]: description[\n\nBREAKING CHANGE: text]              *)

IsWhitespace(c) == c \in {" ", "\n"}

RECURSIVE TrimStart(_)
TrimStart(s) == IF s # <<>> /\ IsWhitespace(Head(s)) THEN TrimStart(Tail(s)) ELSE s

RECURSIVE TrimEnd(_)
TrimEnd(s) ==
    IF s # <<>> /\ IsWhitespace(s[Len(s)]) THEN TrimEnd(SubSeq(s, 1, Len(s) - 1)) ELSE s

\* str::trim.
Trim(s) == TrimEnd(TrimStart(s))

\* The index at which the first occurrence of p starts in s, 0 if there is none.
FindSub(s, p) ==
    LET starts == {i \in 1..(Len(s) - Len(p) + 1) : SubSeq(s, i, i + Len(p) - 1) = p}
    IN IF starts = {} THEN 0 ELSE CHOOSE i \in starts : \A j \in starts : i <= j

\* The characters that end a type or a scope.
IsSeparator(c) == c \in {"(", ")", "!", ":", " ", "\n"}

IsToken(s) == s # <<>> /\ \A i \in 1..Len(s) : ~IsSeparator(s[i])

\* The footer token that marks a breaking change, after the blank line.
BreakingFooter ==
    <<"\n", "\n", "B", "R", "E", "A", "K", "I", "N", "G", " ",
      "C", "H", "A", "N", "G", "E", ":", " ">>

\* A parsed commit: commit.type_(), commit.scope(), commit.description()
\* and commit.breaking_description().
Commit(type, scope, description, breaking_description) ==
    [type |-> type, scope |-> scope, description |-> description,
     breaking_description |-> breaking_description]

\* Commit::parse(message).ok(): None for a message that is no conventional commit.
\* The breaking description is the text of the BREAKING CHANGE footer, or the
\* description when only the "!" marks the commit.
ParseCommit(m) ==
    LET colon == IndexOf(m, ":")
        head == SubSeq(m, 1, colon - 1)
        bang == head # <<>> /\ head[Len(head)] = "!"
        typed == IF bang THEN SubSeq(head, 1, Len(head) - 1) ELSE head
        open == IndexOf(typed, "(")
        type == IF open > 0 THEN SubSeq(typed, 1, open - 1) ELSE typed
        scope == IF open > 0 THEN SubSeq(typed, open + 1, Len(typed) - 1) ELSE <<>>
        rest == TrimStart(SubSeq(m, colon + 1, Len(m)))
        nl == IndexOf(rest, "\n")
        description == IF nl = 0 THEN rest ELSE SubSeq(rest, 1, nl - 1)
        after == IF nl = 0 THEN <<>> ELSE SubSeq(rest, nl, Len(rest))
        footer == FindSub(after, BreakingFooter)
        text == SubSeq(after, footer + Len(BreakingFooter), Len(after))
        line == IndexOf(text, "\n")
        footer_value == IF line = 0 THEN text ELSE SubSeq(text, 1, line - 1)
    IN IF colon = 0 \/ colon = Len(m) \/ m[colon + 1] # " " THEN None
       ELSE IF ~IsToken(type) THEN None
       ELSE IF open > 0 /\ (typed[Len(typed)] # ")" \/ ~IsToken(scope)) THEN None
       ELSE IF description = <<>> THEN None
       ELSE Some(Commit(type, IF open > 0 THEN Some(scope) ELSE None, description,
                        IF footer > 0 THEN Some(footer_value)
                        ELSE IF bang THEN Some(description) ELSE None))

FEAT == <<"f", "e", "a", "t">>
FIX == <<"f", "i", "x">>

\* ConventionalCommits { rule, features, fixes, breaking_changes }
ConventionalCommits(rule, features, fixes, breaking_changes) ==
    [rule |-> rule, features |-> features, fixes |-> fixes,
     breaking_changes |-> breaking_changes]

\* Faulty variant: a feature always selects Minor, also after a breaking change.
FeatRule_Downgrade(rule) == Some("Minor")

\* if !matches!(rule, Some(Major)) { rule = Some(Minor) }
FeatRule(rule) == IF rule = Some("Major") THEN rule ELSE Some("Minor")

\* Faulty variant: a fix always selects Patch, whatever was selected before.
FixRule_Always(rule) == Some("Patch")

\* if rule.is_none() { rule = Some(Patch) }
FixRule(rule) == IF rule = None THEN Some("Patch") ELSE rule

\* The part of the loop body after the breaking change (lines 71-89).
ByType(acc, commit) ==
    IF commit.type = FEAT
    THEN [acc EXCEPT !.features = Append(@, commit.description), !.rule = FeatRule(@)]
    ELSE IF commit.type = FIX
    THEN [acc EXCEPT !.rule = FixRule(@), !.fixes = Append(@, commit.description)]
    ELSE acc

\* Faulty variant: without the `continue`, the description of a commit marked
\* as breaking by "!" alone is recorded with the features or fixes as well.
CommitStep_Duplicate(acc, commit) ==
    IF IsSome(commit.breaking_description)
    THEN ByType([acc EXCEPT !.rule = Some("Major"),
                            !.breaking_changes =
                                Append(@, Unwrap(commit.breaking_description))],
                commit)
    ELSE ByType(acc, commit)

\* The body of `for commit in commits` (lines 55-89).
CommitStep(acc, commit) ==
    IF IsSome(commit.breaking_description)
    THEN LET breaking_message == Unwrap(commit.breaking_description)
             marked == [acc EXCEPT !.rule = Some("Major"),
                                   !.breaking_changes = Append(@, breaking_message)]
         IN IF breaking_message = commit.description THEN marked
            ELSE ByType(marked, commit)
    ELSE ByType(acc, commit)

RECURSIVE FoldCommits(_, _)
FoldCommits(acc, commits) ==
    IF commits = <<>> THEN acc
    ELSE FoldCommits(CommitStep(acc, Head(commits)), Tail(commits))

\* ConventionalCommits::from_commits(commits)
from_commits(commits) ==
    FoldCommits(ConventionalCommits(None, <<>>, <<>>, <<>>), commits)

\* Faulty variant: a package without a scope list takes the commits of every scope.
ScopeFilter_NoListAll(commit, consider, pkg) ==
    \/ ~consider
    \/ ~IsSome(commit.scope)
    \/ ~IsSome(pkg.scopes)
    \/ \E i \in 1..Len(Unwrap(pkg.scopes)) : Unwrap(pkg.scopes)[i] = Unwrap(commit.scope)

\* The closure of the filter (lines 33-42): does the commit apply to the package?
ScopeFilter(commit, consider, pkg) ==
    IF ~consider THEN TRUE
    ELSE IF ~IsSome(commit.scope) THEN TRUE
    ELSE IF ~IsSome(pkg.scopes) THEN FALSE
    ELSE \E i \in 1..Len(Unwrap(pkg.scopes)) : Unwrap(pkg.scopes)[i] = Unwrap(commit.scope)

RECURSIVE SelectedCommits(_, _, _)
\* commit_messages.iter().filter_map(parse).filter(scopes).collect()
SelectedCommits(messages, consider, pkg) ==
    IF messages = <<>> THEN <<>>
    ELSE LET parsed == ParseCommit(Trim(Head(messages)))
             others == SelectedCommits(Tail(messages), consider, pkg)
         IN IF IsSome(parsed) /\ ScopeFilter(Unwrap(parsed), consider, pkg)
            THEN <<Unwrap(parsed)>> \o others
            ELSE others

\* ConventionalCommits::from_commit_messages(commit_messages, consider_scopes, package)
from_commit_messages(messages, consider, pkg) ==
    from_commits(SelectedCommits(messages, consider, pkg))

---------------------------------------------------------------------------
(* The analysis of the commits of one package, as a state machine: the     *)
(* messages, the package and consider_scopes are the inputs, and one       *)
(* action calls from_commit_messages.                                      *)

\* "type[(scope)][!]: description"
Subject(type, scope, bang, description) ==
    type \o (IF IsSome(scope) THEN <<"(">> \o Unwrap(scope) \o <<")">> ELSE <<>>)
         \o (IF bang THEN <<"!">> ELSE <<>>) \o <<":", " ">> \o description

\* The commit messages of the model: a fix, a feature, a breaking feature, a
\* breaking feature with a scope, a commit of another type, a message that is
\* no conventional commit, a fix with a BREAKING CHANGE footer, a feature with
\* a scope and a trailing newline, and a feature with a BREAKING CHANGE footer.
CommitPool ==
    {Subject(FIX, None, FALSE, <<"a">>),
     Subject(FEAT, None, FALSE, <<"b">>),
     Subject(FEAT, None, TRUE, <<"c">>),
     Subject(FEAT, Some(<<"t">>), TRUE, <<"e">>),
     Subject(<<"d", "o", "c", "s">>, None, FALSE, <<"f">>),
     <<"w", "i", "p">>,
     Subject(FIX, None, FALSE, <<"h">>) \o BreakingFooter \o <<"i">>,
     Subject(FEAT, Some(<<"s">>), FALSE, <<"j">>) \o <<"\n">>,
     Subject(FEAT, None, FALSE, <<"k">>) \o BreakingFooter \o <<"l">>}

RECURSIVE CommitLists(_)
\* The lists of at most n messages of the pool, in any order and with repetitions.
CommitLists(n) ==
    IF n = 0 THEN {<<>>}
    ELSE LET shorter == CommitLists(n - 1)
         IN shorter \cup {Append(l, m) : l \in {x \in shorter : Len(x) = n - 1},
                                          m \in CommitPool}

\* The scope lists a package of the model may declare.
ScopeLists == {None, Some(<<<<"s">>>>), Some(<<<<"s">>, <<"t">>>>)}

InitCommits ==
    /\ commit_messages \in CommitLists(MaxCommits)
    /\ package \in {[name |-> None, scopes |-> sc] : sc \in ScopeLists}
    /\ consider_scopes \in BOOLEAN
    /\ conventional_commits = None
    /\ BumpIdle
    /\ TagsIdle
    /\ RunIdle
    /\ LaterIdle

\* ConventionalCommits::from_commit_messages(&commit_messages, consider_scopes, package)
FromCommitMessages ==
    /\ conventional_commits = None
    /\ conventional_commits' =
          Some(from_commit_messages(commit_messages, consider_scopes, package))
    /\ UNCHANGED <<commit_messages, package, consider_scopes>>
    /\ UNCHANGED nonCommitVars

NextCommits == FromCommitMessages

SpecCommits == InitCommits /\ [][NextCommits]_vars

---------------------------------------------------------------------------
(* Properties of the commit analysis.                                      *)

\* The analysis has been made, and what it returned.
Analyzed == IsSome(conventional_commits)
Analysis == Unwrap(conventional_commits)

\* The parsed commits that apply to the package, in the order of the messages.
Selected == SelectedCommits(commit_messages, consider_scopes, package)

IsBreaking(commit) == IsSome(commit.breaking_description)

\* The highest severity among the commits: breaking, then feature, then fix.
MaxSeverity(commits) ==
    IF \E i \in 1..Len(commits) : IsBreaking(commits[i]) THEN Some("Major")
    ELSE IF \E i \in 1..Len(commits) : commits[i].type = FEAT THEN Some("Minor")
    ELSE IF \E i \in 1..Len(commits) : commits[i].type = FIX THEN Some("Patch")
    ELSE None

\* A commit that is breaking, a feature or a fix.
Contributes(commit) == IsBreaking(commit) \/ commit.type \in {FEAT, FIX}

\* C11: the rule derived from the commits is the highest severity observed:
\* Major if a commit is breaking, otherwise Minor if one is a feature, otherwise
\* Patch if one is a fix, otherwise none; the commits of other types and the
\* messages that do not parse add neither a rule nor a description.
C11_MaxSeverity ==
    Analyzed =>
        /\ Analysis.rule = MaxSeverity(Selected)
        /\ Analysis = from_commits(SelectSeq(Selected, Contributes))
        /\ (\A i \in 1..Len(Selected) : ~Contributes(Selected[i])) =>
              Analysis = ConventionalCommits(None, <<>>, <<>>, <<>>)

\* A feature follows a breaking change and the rule is still Major, in a list
\* that also holds a message contributing nothing.
C11_Witness ==
    /\ Analyzed
    /\ Len(commit_messages) = 3
    /\ Len(Selected) = 2
    /\ IsBreaking(Selected[1])
    /\ Selected[2].type = FEAT /\ ~IsBreaking(Selected[2])
    /\ Analysis.rule = Some("Major")
    /\ Len(Analysis.features) >= 1

\* The number of times each element occurs in a sequence.
Occurrences(seq) == [x \in Range(seq) |-> Cardinality({i \in 1..Len(seq) : seq[i] = x})]

SameAnalysis(a, b) ==
    /\ a.rule = b.rule
    /\ Occurrences(a.features) = Occurrences(b.features)
    /\ Occurrences(a.fixes) = Occurrences(b.fixes)
    /\ Occurrences(a.breaking_changes) = Occurrences(b.breaking_changes)

\* C12: the analysis does not depend on the order of the commits: every
\* permutation of the messages yields the same rule and the same multisets of
\* features, fixes and breaking changes.
C12_OrderIndependent ==
    Analyzed =>
        \A f \in Permutations(1..Len(commit_messages)) :
            SameAnalysis(from_commit_messages(Permuted(commit_messages, f),
                                              consider_scopes, package),
                         Analysis)

\* Three different messages were analyzed, a feature before a fix, and both
\* were recorded.
C12_Witness ==
    /\ Analyzed
    /\ Len(commit_messages) = 3
    /\ Cardinality(Range(commit_messages)) = 3
    /\ Len(Selected) = 3
    /\ Selected[1].type = FEAT /\ Selected[3].type = FIX
    /\ Analysis.rule = Some("Minor")
    /\ Analysis.features # <<>> /\ Analysis.fixes # <<>>

---------------------------------------------------------------------------
(* Changesets (src/src/step/releases/changesets.rs).  The directory        *)
(* .changeset is an Option: None when it does not exist, otherwise the      *)
(* change files in the order the directory lists them.                      *)

\* pub(crate) const DEFAULT_CHANGESET_PACKAGE_NAME: &str = "default";
DEFAULT_CHANGESET_PACKAGE_NAME == <<"d", "e", "f", "a", "u", "l", "t">>

\* One change file: its unique id and, for each package it names, a change type.
ChangeFile(unique_id, versioning) == [unique_id |-> unique_id, versioning |-> versioning]

\* One line of the versioning of a change file.
Versioned(package_name, change_type) ==
    [package_name |-> package_name, change_type |-> change_type]

\* change.unique_id.to_file_name()
to_file_name(unique_id) == unique_id \o <<".", "m", "d">>

\* A change of a package as the changeset of a directory holds it.
PackageChange(unique_id, change_type) ==
    [unique_id |-> unique_id, change_type |-> change_type]

\* Change::ChangeSet(change), and the change a conventional commit gives.
ChangeSetChange(change) == [source |-> "ChangeSet", change |-> change]
CommitChange(description) ==
    [source |-> "ConventionalCommit", change |-> PackageChange(description, "Fix")]

RECURSIVE ChangesFor(_, _)
\* ChangeSet::from_directory(..).releases[key].changes: the changes of the files
\* that name the package `key`, in the order of the files.
ChangesFor(files, key) ==
    IF files = <<>> THEN <<>>
    ELSE LET file == Head(files)
             named == SelectSeq(file.versioning, LAMBDA v : v.package_name = key)
         IN (IF named = <<>> THEN <<>>
             ELSE <<PackageChange(file.unique_id, named[1].change_type)>>)
            \o ChangesFor(Tail(files), key)

\* Faulty variant: a package without a name is keyed by the empty name.
ChangesetKey_Empty(pkg) ==
    IF IsSome(pkg.name) THEN Unwrap(pkg.name) ELSE <<>>

\* The key of a package in the changeset: its name, or "default".
ChangesetKey(pkg) ==
    IF IsSome(pkg.name) THEN Unwrap(pkg.name) ELSE DEFAULT_CHANGESET_PACKAGE_NAME

\* The state of add_releases_from_changeset within the map over the packages:
\* the keys already removed from changeset.releases, changesets_deleted, the
\* pending changes of the packages done, the files remove_file was called on,
\* and the lines written to the dry-run output.
Distribution(taken, changesets_deleted, pending, removed, stdout) ==
    [taken |-> taken, changesets_deleted |-> changesets_deleted, pending |-> pending,
     removed |-> removed, stdout |-> stdout]

WouldDelete(file_name) == [would |-> "delete", package_name |-> None, what |-> file_name]

\* Faulty variant: the file of every change is deleted, also for a prerelease.
ShouldDelete_Always(file_name, changesets_deleted, is_prerelease) ==
    file_name \notin changesets_deleted

\* if !changesets_deleted.contains(&file_name) && !is_prerelease
ShouldDelete(file_name, changesets_deleted, is_prerelease) ==
    file_name \notin changesets_deleted /\ ~is_prerelease

\* Faulty variant: the set of the deleted files never learns of a file.
Inserted_Forgotten(changesets_deleted, file_name) == changesets_deleted

\* changesets_deleted.insert(file_name)
Inserted(changesets_deleted, file_name) == changesets_deleted \cup {file_name}

RECURSIVE DistributeChanges(_, _, _, _)
\* The closure mapped over release_changes.changes (lines 164-180).
DistributeChanges(changes, is_prerelease, dry_run, acc) ==
    IF changes = <<>> THEN acc
    ELSE LET change == Head(changes)
             file_name == to_file_name(change.unique_id)
             delete == ShouldDelete(file_name, acc.changesets_deleted, is_prerelease)
             next == [acc EXCEPT
                        !.stdout = IF delete /\ dry_run
                                   THEN Append(@, WouldDelete(file_name)) ELSE @,
                        !.removed = IF delete /\ ~dry_run THEN Append(@, file_name) ELSE @,
                        !.changesets_deleted = IF delete THEN Inserted(@, file_name) ELSE @,
                        !.pending[Len(acc.pending)] = Append(@, ChangeSetChange(change))]
         IN DistributeChanges(Tail(changes), is_prerelease, dry_run, next)

RECURSIVE DistributeFrom(_, _, _, _, _, _, _)
\* The closure mapped over the packages (lines 155-183), from package i on.
DistributeFrom(i, pkgs, pending, files, is_prerelease, dry_run, acc) ==
    IF i > Len(pkgs) THEN acc
    ELSE LET key == ChangesetKey(pkgs[i])
             changes == IF key \in acc.taken THEN <<>> ELSE ChangesFor(files, key)
             start == [acc EXCEPT !.taken = @ \cup {key},
                                  !.pending = Append(@, pending[i])]
         IN DistributeFrom(i + 1, pkgs, pending, files, is_prerelease, dry_run,
                           DistributeChanges(changes, is_prerelease, dry_run, start))

\* add_releases_from_changeset(packages, is_prerelease, dry_run): the pending
\* changes of the packages returned, the files deleted and the lines written.
add_releases_from_changeset(pkgs, pending, dir, is_prerelease, dry_run) ==
    IF ~IsSome(dir) THEN Distribution({}, {}, pending, <<>>, <<>>)
    ELSE DistributeFrom(1, pkgs, pending, Unwrap(dir), is_prerelease, dry_run,
                        Distribution({}, {}, <<>>, <<>>, <<>>))

\* The directory once remove_file was called on each of the files `removed`.
RemoveFiles(dir, removed) ==
    IF ~IsSome(dir) THEN dir
    ELSE Some(SelectSeq(Unwrap(dir),
                        LAMBDA file : \A k \in 1..Len(removed) :
                                         removed[k] # to_file_name(file.unique_id)))

---------------------------------------------------------------------------
(* The release run: the steps of a workflow (src/src/workflow.rs), each     *)
(* taking the RunType: Changesets (add_releases_from_changeset),            *)
(* PrepareRelease (update_project_from_conventional_commits), Command       *)
(* (run_command) and Release (releases::release, git::release).  A run is   *)
(* a dry run or a real one; the resources a real run changes are the        *)
(* versioned files, the changelogs, the change files, the tags and the      *)
(* shell.                                                                   *)

\* One entry of state.packages, with the current versions get_version finds.
RunPackage(name, scopes, changelog, version) ==
    [name |-> name, scopes |-> scopes, changelog |-> changelog, version |-> version]

\* new_changelog_lines(version, fixes, features, breaking_changes): the section.
new_changelog_lines(version, fixes, features, breaking_changes) ==
    [version |-> version, fixes |-> fixes, features |-> features,
     breaking_changes |-> breaking_changes]

\* Release { version, changelog, package_name }
Release(version, changelog, package_name) ==
    [version |-> version, changelog |-> changelog, package_name |-> package_name]

\* The lines of the dry-run output.
WouldBump(package_name, version) ==
    [would |-> "bump", package_name |-> package_name, what |-> version]
WouldAddToChangelog(package_name, section) ==
    [would |-> "add to changelog", package_name |-> package_name, what |-> section]
WouldRun(command) == [would |-> "run", package_name |-> None, what |-> command]
WouldCreateTag(package_name, tag) ==
    [would |-> "create Git tag", package_name |-> package_name, what |-> tag]

\* What prepare_release_for_package did: Ok(None), Ok(Some(release)) or Err;
\* the analysis of the commits, the lines written to the dry-run output, the
\* version written to the versioned files and the section added to the changelog.
Prepared(kind, analysis, release, stdout, written, section) ==
    [kind |-> kind, analysis |-> analysis, release |-> release, stdout |-> stdout,
     written |-> written, section |-> section]

\* Faulty variant: set_version writes the versioned files in a dry run too.
SetVersion_Always(version, dry_run) == Some(version)

\* set_version(package_version, dry_run): the version written to the versioned
\* files, none in a dry run.
SetVersion(version, dry_run) == IF dry_run THEN None ELSE Some(version)

\* prepare_release_for_package once bump_version returned (lines 393-429).
PrepareBumped(pkg, analysis, outcome, dry_run) ==
    LET version == latest(outcome.value)
        new_changes == new_changelog_lines(version, analysis.fixes, analysis.features,
                                           analysis.breaking_changes)
        release == Release(version, new_changes, pkg.name)
    IN IF outcome.kind # "Ok"
       THEN Prepared(IF outcome.kind = "Err" THEN outcome.err ELSE "panic",
                     Some(analysis), None, <<>>, None, None)
       ELSE IF dry_run
       THEN Prepared("Ok", Some(analysis), Some(release),
                     <<WouldBump(pkg.name, version)>> \o
                        (IF pkg.changelog
                         THEN <<WouldAddToChangelog(pkg.name, new_changes)>> ELSE <<>>),
                     SetVersion(version, dry_run), None)
       ELSE Prepared("Ok", Some(analysis), Some(release), <<>>,
                     SetVersion(version, dry_run),
                     IF pkg.changelog THEN Some(new_changes) ELSE None)

\* prepare_release_for_package once the commits are analyzed (lines 379-394):
\* one result for each outcome of bump.
PrepareAnalyzed(pkg, analysis, label, dry_run) ==
    IF analysis.rule = None
    THEN {Prepared("Ok", Some(analysis), None, <<>>, None, None)}
    ELSE {PrepareBumped(pkg, analysis, outcome, dry_run) :
            outcome \in bump(pkg.version,
                             IF IsSome(label)
                             THEN PreRule(Unwrap(label), Unwrap(analysis.rule))
                             ELSE RuleFrom(Unwrap(analysis.rule)))}

\* prepare_release_for_package(package, consider_scopes, prerelease_label, dry_run_stdout)
prepare_release_for_package(pkg, messages, consider, label, dry_run) ==
    UNION {PrepareAnalyzed(pkg, analysis, label, dry_run) :
             analysis \in {from_commit_messages(messages, consider, pkg)}}

\* Faulty variant: only the scopes of the first package are looked at.
ConsiderScopes_First(pkgs) == pkgs # <<>> /\ IsSome(pkgs[1].scopes)

\* let consider_scopes = state.packages.iter().any(|package| package.scopes.is_some())
ConsiderScopes(pkgs) == \E i \in 1..Len(pkgs) : IsSome(pkgs[i].scopes)

\* What update_project_from_conventional_commits did: per package handled, the
\* analysis, the version written and the changelog section added.
Project(kind, consider, rels, anas, stdout, written, sections) ==
    [kind |-> kind, consider |-> consider, releases |-> rels, analyses |-> anas,
     stdout |-> stdout, written |-> written, sections |-> sections]

RECURSIVE PrepareFrom(_, _, _, _, _, _)
\* for package in &mut state.packages { ...? } from package i on.
PrepareFrom(i, pkgs, messages, label, dry_run, acc) ==
    IF i > Len(pkgs) THEN {acc}
    ELSE UNION {
           LET next == [acc EXCEPT !.releases = @ \o r.release,
                                   !.analyses = Append(@, r.analysis),
                                   !.stdout = @ \o r.stdout,
                                   !.written = Append(@, r.written),
                                   !.sections = Append(@, r.section)]
           IN IF r.kind # "Ok" THEN {[next EXCEPT !.kind = r.kind]}
              ELSE PrepareFrom(i + 1, pkgs, messages, label, dry_run, next) :
           r \in prepare_release_for_package(pkgs[i], messages, acc.consider, label,
                                             dry_run)}

\* The end of update_project_from_conventional_commits (lines 355-364).
ProjectResult(dry_run, project) ==
    IF project.kind # "Ok" THEN project
    ELSE IF dry_run THEN project
    ELSE IF project.releases = <<>> THEN [project EXCEPT !.kind = "NoRelease"]
    ELSE project

\* update_project_from_conventional_commits(run_type, prepare_release)
update_project_from_conventional_commits(rt, pkgs, messages, label) ==
    LET start == Project("Ok", ConsiderScopes(pkgs), <<>>, <<>>, <<>>, <<>>, <<>>)
    IN IF pkgs = <<>> THEN {[start EXCEPT !.kind = "NoDefinedPackages"]}
       ELSE {ProjectResult(rt = "DryRun", project) :
               project \in PrepareFrom(1, pkgs, messages, label, rt = "DryRun", start)}

\* The steps of the model's workflows.
Workflows ==
    {<<"Changesets", "PrepareRelease", "Command", "Release">>,
     <<"Command", "Release">>,
     <<"PrepareRelease">>}

\* The commit messages of a run: a fix, a feature with scope s, a breaking
\* feature with scope t, and a commit of another type.
RunCommitPool ==
    {Subject(FIX, None, FALSE, <<"a">>),
     Subject(FEAT, Some(<<"s">>), FALSE, <<"j">>),
     Subject(FEAT, Some(<<"t">>), TRUE, <<"e">>),
     Subject(<<"d", "o", "c", "s">>, None, FALSE, <<"f">>)}

RECURSIVE RunCommitLists(_)
RunCommitLists(n) ==
    IF n = 0 THEN {<<>>}
    ELSE LET shorter == RunCommitLists(n - 1)
         IN shorter \cup {Append(l, m) : l \in {x \in shorter : Len(x) = n - 1},
                                          m \in RunCommitPool}

\* The current versions of the packages of a run: the first at 1.0.0 with the
\* prerelease 1.1.0-rc.0, the second at 0.1.0.
FirstVersion ==
    CurrentVersions(Version(1, 0, 0, <<>>), Some(Version(1, 1, 0, <<"r", "c", ".", "0">>)))
SecondVersion == CurrentVersions(Version(0, 1, 0, <<>>), None)

\* The configurations of the model: no package, one package without a name, or
\* the packages "first" (with a changelog) and "second" (without).
PackageConfigs ==
    {<<>>}
        \cup {<<RunPackage(None, sc, TRUE, FirstVersion)>> :
                sc \in {None, Some(<<<<"s">>>>)}}
        \cup {<<RunPackage(Some(<<"f", "i", "r", "s", "t">>), sc1, TRUE, FirstVersion),
                RunPackage(Some(<<"s", "e", "c", "o", "n", "d">>), sc2, FALSE,
                           SecondVersion)>> :
                sc1 \in {None, Some(<<<<"s">>>>)},
                sc2 \in {None, Some(<<<<"s">>>>), Some(<<<<"t">>>>)}}

\* The prerelease labels of a run: none, "rc", and the empty label, which is no
\* valid prerelease identifier.
RunLabels == {None, Some(<<"r", "c">>), Some(<<>>)}

\* The pending changes of the packages when a run starts: the first package
\* has the change of one conventional commit.
InitialPending(pkgs) ==
    [i \in 1..Len(pkgs) |-> IF i = 1 THEN <<CommitChange(<<"a">>)>> ELSE <<>>]

\* The directory .changeset of a run: absent, or holding one change file that
\* names the package without a name and the package "first".
RunChangesetDirs ==
    {None,
     Some(<<ChangeFile(<<"a">>,
                       <<Versioned(DEFAULT_CHANGESET_PACKAGE_NAME, "Minor"),
                         Versioned(<<"f", "i", "r", "s", "t">>, "Patch")>>)>>)}

InitRun ==
    /\ run_type \in {"DryRun", "Real"}
    /\ packages \in PackageConfigs
    /\ prerelease_label \in RunLabels
    /\ workflow \in Workflows
    /\ commit_messages \in RunCommitLists(MaxRunCommits)
    /\ step_index = 0
    /\ status = "running"
    /\ releases = <<>>
    /\ analyses = <<>>
    /\ dry_run_stdout = <<>>
    /\ versioned_files = [i \in 1..Len(packages) |-> latest(packages[i].version)]
    /\ changelogs = [i \in 1..Len(packages) |-> <<>>]
    /\ git_tags = {}
    /\ commands_run = <<>>
    /\ changeset_dir \in RunChangesetDirs
    /\ pending_changes = InitialPending(packages)
    /\ removed_files = <<>>
    /\ runs = <<>>
    /\ package = [name |-> None, scopes |-> None]
    /\ consider_scopes = FALSE
    /\ conventional_commits = None
    /\ BumpIdle
    /\ TagsIdle
    /\ LaterIdle

\* The step of the workflow that runs next.
NextStepIs(step) ==
    /\ status = "running"
    /\ step_index < Len(workflow)
    /\ workflow[step_index + 1] = step

\* workflow::run: the state after a step that returned `kind`.
StepDone(kind) ==
    /\ step_index' = step_index + 1
    /\ status' = IF kind # "Ok" THEN kind
                 ELSE IF step_index + 1 = Len(workflow) THEN "Ok" ELSE "running"

\* Step::PrepareRelease: update_project_from_conventional_commits(run_type, ..).
PrepareReleaseStep ==
    /\ NextStepIs("PrepareRelease")
    /\ \E r \in update_project_from_conventional_commits(run_type, packages,
                                                          commit_messages,
                                                          prerelease_label) :
          /\ consider_scopes' = r.consider
          /\ analyses' = r.analyses
          /\ releases' = releases \o r.releases
          /\ dry_run_stdout' = dry_run_stdout \o r.stdout
          /\ versioned_files' =
                [i \in 1..Len(versioned_files) |->
                    IF i <= Len(r.written) /\ IsSome(r.written[i])
                    THEN Unwrap(r.written[i]) ELSE versioned_files[i]]
          /\ changelogs' =
                [i \in 1..Len(changelogs) |->
                    IF i <= Len(r.sections) /\ IsSome(r.sections[i])
                    THEN Append(changelogs[i], Unwrap(r.sections[i])) ELSE changelogs[i]]
          /\ StepDone(r.kind)
    /\ UNCHANGED <<run_type, packages, prerelease_label, workflow, git_tags, commands_run>>
    /\ UNCHANGED <<commit_messages, package, conventional_commits>>
    /\ UNCHANGED <<bumpVars, tagVars, changesetVars, laterVars>>

\* The command of the model's workflows.
TheCommand == <<"x">>

\* Step::Command: run_command(run_type, command, variables); the command succeeds.
CommandStep ==
    /\ NextStepIs("Command")
    /\ IF run_type = "DryRun"
       THEN /\ dry_run_stdout' = Append(dry_run_stdout, WouldRun(TheCommand))
            /\ UNCHANGED commands_run
       ELSE /\ commands_run' = Append(commands_run, TheCommand)
            /\ UNCHANGED dry_run_stdout
    /\ StepDone("Ok")
    /\ UNCHANGED <<run_type, packages, prerelease_label, workflow, releases, analyses,
                   versioned_files, changelogs, git_tags>>
    /\ UNCHANGED <<commitVars, bumpVars, tagVars, changesetVars, laterVars>>

\* Step::Release: releases::release, with git::release for each prepared release.
ReleaseStep ==
    /\ NextStepIs("Release")
    /\ IF releases = <<>>
       THEN /\ StepDone("ReleaseNotPrepared")
            /\ UNCHANGED <<dry_run_stdout, git_tags>>
       ELSE LET tag(i) == tag_name(releases[i].version, releases[i].package_name)
            IN /\ IF run_type = "DryRun"
                  THEN /\ dry_run_stdout' =
                            dry_run_stdout \o
                            [i \in 1..Len(releases) |->
                                WouldCreateTag(releases[i].package_name, tag(i))]
                       /\ UNCHANGED git_tags
                  ELSE /\ git_tags' = git_tags \cup {tag(i) : i \in 1..Len(releases)}
                       /\ UNCHANGED dry_run_stdout
               /\ StepDone("Ok")
    /\ UNCHANGED <<run_type, packages, prerelease_label, workflow, releases, analyses,
                   versioned_files, changelogs, commands_run>>
    /\ UNCHANGED <<commitVars, bumpVars, tagVars, changesetVars, laterVars>>

\* One call of add_releases_from_changeset, as `runs` remembers it.
Run(is_prerelease, dry_run) == [is_prerelease |-> is_prerelease, dry_run |-> dry_run]

\* add_releases_from_changeset(packages, is_prerelease, dry_run) as a step of the
\* workflow; the release is a prerelease when the run has a prerelease label.
ChangesetStep ==
    /\ NextStepIs("Changesets")
    /\ \E d \in {add_releases_from_changeset(packages, pending_changes, changeset_dir,
                                              IsSome(prerelease_label),
                                              run_type = "DryRun")} :
          /\ pending_changes' = d.pending
          /\ removed_files' = d.removed
          /\ changeset_dir' = RemoveFiles(changeset_dir, d.removed)
          /\ dry_run_stdout' = dry_run_stdout \o d.stdout
    /\ runs' = Append(runs, Run(IsSome(prerelease_label), run_type = "DryRun"))
    /\ StepDone("Ok")
    /\ UNCHANGED <<run_type, packages, prerelease_label, workflow, releases, analyses,
                   resourceVars>>
    /\ UNCHANGED <<commitVars, bumpVars, tagVars, laterVars>>

NextRun == ChangesetStep \/ PrepareReleaseStep \/ CommandStep \/ ReleaseStep

SpecRun == InitRun /\ [][NextRun]_vars

---------------------------------------------------------------------------
(* Properties of the release run.                                          *)

\* The PrepareRelease step of the workflow has run.
PreparedStep == \E k \in 1..step_index : workflow[k] = "PrepareRelease"

\* The PrepareRelease step is the step that ran last, and how it returned.
JustPrepared == step_index >= 1 /\ workflow[step_index] = "PrepareRelease"
PrepareKind == IF status \in {"running", "Ok"} THEN "Ok" ELSE status

\* The packages whose commits the step analyzed, and the analysis of each.
Handled == 1..Len(analyses)
AnalysisOf(i) == Unwrap(analyses[i])

\* Every message of the run that parses as a conventional commit.
ParsedCommits == SelectedCommits(commit_messages, FALSE, [name |-> None, scopes |-> None])

HasScope(commit) == IsSome(commit.scope)
Unscoped(commit) == ~HasScope(commit)
AnyCommit(commit) == TRUE

\* The scope list of the package contains the scope of the commit.
InScopes(commit, pkg) ==
    /\ IsSome(pkg.scopes)
    /\ \E k \in 1..Len(Unwrap(pkg.scopes)) : Unwrap(pkg.scopes)[k] = Unwrap(commit.scope)

\* The analysis of the parsed commits that satisfy Test.
AnalysisOfThose(Test(_)) == from_commits(SelectSeq(ParsedCommits, Test))

\* C13 as claimed: every parsed commit applies to a package that declares no
\* scopes, with or without a scope, also when another package of the run
\* declares scopes.
C13_NoScopesAllApply ==
    PreparedStep =>
        \A i \in Handled :
            packages[i].scopes = None =>
                AnalysisOf(i) = AnalysisOfThose(AnyCommit)

\* C13 amended: every parsed commit applies to a package that declares no scopes
\* when no package of the run declares scopes; when another package declares
\* scopes, exactly the commits without a scope apply to it.
C13_NoScopesUnlessConsidered ==
    PreparedStep =>
        \A i \in Handled :
            packages[i].scopes = None =>
                IF \E j \in 1..Len(packages) : IsSome(packages[j].scopes)
                THEN AnalysisOf(i) = AnalysisOfThose(Unscoped)
                ELSE AnalysisOf(i) = AnalysisOfThose(AnyCommit)

\* The second package declares no scopes, the first does, and a commit with a
\* scope and one without were analyzed for both.
C13_Witness ==
    /\ PreparedStep
    /\ Len(analyses) = 2
    /\ IsSome(packages[1].scopes) /\ packages[2].scopes = None
    /\ \E k \in 1..Len(ParsedCommits) : HasScope(ParsedCommits[k])
    /\ AnalysisOf(2).rule = Some("Patch")

\* C14: consider_scopes is true exactly when a package of the run declares
\* scopes.  When it is true a commit without a scope applies to every package
\* and a commit with a scope applies to the packages whose scope list contains
\* it, never to a package without a scope list; when it is false every commit
\* applies to every package.
C14_ScopeAttribution ==
    (PreparedStep /\ packages # <<>>) =>
        /\ consider_scopes = (\E j \in 1..Len(packages) : IsSome(packages[j].scopes))
        /\ \A i \in Handled :
              LET Applies(commit) ==
                     IF consider_scopes
                     THEN ~HasScope(commit) \/ InScopes(commit, packages[i])
                     ELSE TRUE
              IN AnalysisOf(i) = AnalysisOfThose(Applies)

\* Both packages declare scopes, and a feature with the scope of the first alone
\* gave the first a rule and the second none.
C14_Witness ==
    /\ PreparedStep
    /\ consider_scopes
    /\ Len(analyses) = 2
    /\ IsSome(packages[1].scopes) /\ IsSome(packages[2].scopes)
    /\ AnalysisOf(1).rule = Some("Minor")
    /\ AnalysisOf(2).rule = None
    /\ ParsedCommits # <<>>

\* A release was prepared for package i.
ReleasedFor(i) == \E k \in 1..Len(releases) : releases[k].package_name = packages[i].name

\* The versioned files and the changelog of package i are as they were.
Untouched(i) ==
    /\ versioned_files[i] = latest(packages[i].version)
    /\ changelogs[i] = <<>>

\* No rule was derived for package i.
Skipped(i) == i \in Handled /\ AnalysisOf(i).rule = None

\* What C15 says of a run that has prepared its releases.
SkipsWithoutRule ==
    /\ \A i \in Handled : Skipped(i) => (~ReleasedFor(i) /\ Untouched(i))
    /\ prerelease_label # Some(<<>>) =>
          \A i \in 1..Len(packages) : i \in Handled /\ (~Skipped(i) => ReleasedFor(i))
    /\ (packages # <<>> /\ \A i \in 1..Len(packages) : Skipped(i)) => status = "NoRelease"

\* C15 as claimed: a package for which no rule is derived is skipped without
\* error, gets no release and no file change, and the other packages are still
\* released; when every package is skipped the run fails with NoRelease.
C15_SkipWithoutRule == JustPrepared => SkipsWithoutRule

\* The same holds of the real runs.
C15_SkipWithoutRuleRealRun == (JustPrepared /\ run_type = "Real") => SkipsWithoutRule

OtherRunType == IF run_type = "DryRun" THEN "Real" ELSE "DryRun"

\* The decision of a PrepareRelease step: how it returned, the rule derived
\* for each package and the package and version of each release.
Decision(kind, anas, rels) ==
    [kind |-> kind,
     rules |-> [i \in 1..Len(anas) |-> Unwrap(anas[i]).rule],
     releases |-> [k \in 1..Len(rels) |->
                      [package_name |-> rels[k].package_name, version |-> rels[k].version]]]

\* C16 as claimed: from the same packages, commits and label, the dry run and
\* the real run decide alike: both succeed or both fail, with the same rule
\* for each package and the same releases at the same versions.
C16_DecisionEquivalent ==
    JustPrepared =>
        \A other \in update_project_from_conventional_commits(
                        OtherRunType, packages, commit_messages, prerelease_label) :
            Decision(other.kind, other.analyses, other.releases)
                = Decision(PrepareKind, analyses, releases)

\* When a release is prepared or the step fails before the end, both kinds of
\* run do decide alike.
C16_DecisionEquivalentWhenReleasing ==
    (JustPrepared /\ status # "NoRelease" /\ (run_type = "DryRun" => releases # <<>>)) =>
        \A other \in update_project_from_conventional_commits(
                        OtherRunType, packages, commit_messages, prerelease_label) :
            Decision(other.kind, other.analyses, other.releases)
                = Decision(PrepareKind, analyses, releases)

\* Step k of the workflow has run.
StepRan(step) == \E k \in 1..step_index : workflow[k] = step

\* The dry-run output holds the line.
Described(line) == \E k \in 1..Len(dry_run_stdout) : dry_run_stdout[k] = line

\* The resources of a run: versioned files, changelogs, change files, tags and
\* the commands the shell was given.
Resources == <<versioned_files, changelogs, changeset_dir, git_tags, commands_run>>

\* Every operation that a real run would have made is described in the output.
DryRunDescribes ==
    /\ \A k \in 1..Len(releases) :
          Described(WouldBump(releases[k].package_name, releases[k].version))
    /\ StepRan("Command") => Described(WouldRun(TheCommand))
    /\ (StepRan("Release") /\ status # "ReleaseNotPrepared") =>
          \A k \in 1..Len(releases) :
             Described(WouldCreateTag(releases[k].package_name,
                                      tag_name(releases[k].version,
                                               releases[k].package_name)))
    /\ (StepRan("Changesets") /\ ~IsSome(prerelease_label)) =>
          \A i \in 1..Len(pending_changes) : \A k \in 1..Len(pending_changes[i]) :
             pending_changes[i][k].source = "ChangeSet" =>
                Described(WouldDelete(to_file_name(pending_changes[i][k].change.unique_id)))

\* C17: a dry run touches no resource: no step of a dry run changes a versioned
\* file, a changelog, a change file or the tags, none runs a shell command or
\* calls remove_file, and what a real run would have done is described in the
\* dry-run output.
C17_DryRunTouchesNothing ==
    /\ [](run_type = "DryRun" => (DryRunDescribes /\ removed_files = <<>>))
    /\ [][run_type = "DryRun" => UNCHANGED Resources]_vars

\* A dry run of the four steps ended well, with a release prepared and the
\* deletion of a change file described.
C17_Witness ==
    /\ run_type = "DryRun"
    /\ status = "Ok"
    /\ step_index = 4
    /\ releases # <<>>
    /\ \E k \in 1..Len(dry_run_stdout) : dry_run_stdout[k].would = "delete"
    /\ \E k \in 1..Len(dry_run_stdout) : dry_run_stdout[k].would = "create Git tag"

---------------------------------------------------------------------------
(* The runs of add_releases_from_changeset over one directory: each run is *)
(* a new process that starts from the packages of the configuration and    *)
(* finds the change files the runs before it left.                         *)

\* The change files of the model: one for the package without a name, one for
\* the packages "first" and "second", one for "second" alone, and one for a
\* package that is not configured.
ChangeFilePool ==
    {ChangeFile(<<"a">>, <<Versioned(DEFAULT_CHANGESET_PACKAGE_NAME, "Major")>>),
     ChangeFile(<<"b">>, <<Versioned(<<"f", "i", "r", "s", "t">>, "Minor"),
                           Versioned(<<"s", "e", "c", "o", "n", "d">>, "Patch")>>),
     ChangeFile(<<"c">>, <<Versioned(<<"s", "e", "c", "o", "n", "d">>, "Major")>>),
     ChangeFile(<<"d">>, <<Versioned(<<"o", "t", "h", "e", "r">>, "Patch")>>)}

RECURSIVE FileLists(_)
\* The lists of at most n different change files, in any order.
FileLists(n) ==
    IF n = 0 THEN {<<>>}
    ELSE LET shorter == FileLists(n - 1)
         IN shorter \cup {Append(l, f) : l \in {x \in shorter : Len(x) = n - 1},
                                          f \in ChangeFilePool}

\* No file is listed twice.
Distinct(list) == \A i, j \in 1..Len(list) : list[i] = list[j] => i = j

\* The directories of the model: none, or one listing different change files.
ChangesetDirs ==
    {None} \cup {Some(l) : l \in {x \in FileLists(MaxChangeFiles) : Distinct(x)}}

\* The configurations of the model: one package without a name, or the packages
\* "first" and "second".
ChangesetPackages ==
    {<<RunPackage(None, None, TRUE, FirstVersion)>>,
     <<RunPackage(Some(<<"f", "i", "r", "s", "t">>), None, TRUE, FirstVersion),
       RunPackage(Some(<<"s", "e", "c", "o", "n", "d">>), None, FALSE, SecondVersion)>>}

InitChangesets ==
    /\ packages \in ChangesetPackages
    /\ changeset_dir \in ChangesetDirs
    /\ pending_changes = InitialPending(packages)
    /\ removed_files = <<>>
    /\ runs = <<>>
    /\ run_type = "Real"
    /\ prerelease_label = None
    /\ workflow = <<>>
    /\ step_index = 0
    /\ status = "idle"
    /\ releases = <<>>
    /\ analyses = <<>>
    /\ dry_run_stdout = <<>>
    /\ versioned_files = <<>>
    /\ changelogs = <<>>
    /\ git_tags = {}
    /\ commands_run = <<>>
    /\ CommitsIdle
    /\ BumpIdle
    /\ TagsIdle
    /\ LaterIdle

\* One run: add_releases_from_changeset(packages, is_prerelease, dry_run) on the
\* packages as the configuration gives them.
AddReleasesFromChangeset(is_prerelease, dry_run) ==
    /\ Len(runs) < MaxRuns
    /\ \E d \in {add_releases_from_changeset(packages, InitialPending(packages),
                                              changeset_dir, is_prerelease, dry_run)} :
          /\ pending_changes' = d.pending
          /\ removed_files' = d.removed
          /\ changeset_dir' = RemoveFiles(changeset_dir, d.removed)
          /\ dry_run_stdout' = d.stdout
    /\ runs' = Append(runs, Run(is_prerelease, dry_run))
    /\ UNCHANGED <<run_type, packages, prerelease_label, workflow, step_index, status,
                   releases, analyses, resourceVars>>
    /\ UNCHANGED <<commitVars, bumpVars, tagVars, laterVars>>

NextChangesets ==
    \E is_prerelease \in BOOLEAN, dry_run \in BOOLEAN :
        AddReleasesFromChangeset(is_prerelease, dry_run)

SpecChangesets == InitChangesets /\ [][NextChangesets]_vars

---------------------------------------------------------------------------
(* Claims about the runs of add_releases_from_changeset.                   *)

\* The run that led to this state.
LastRun == runs[Len(runs)]

\* The key under which the changeset holds the changes of a package.
KeyOf(pkg) == IF pkg.name = None THEN <<"d", "e", "f", "a", "u", "l", "t">>
              ELSE pkg.name[1]

\* The change file names the package of this key.
Names(file, key) ==
    \E k \in 1..Len(file.versioning) : file.versioning[k].package_name = key

\* The packages of the configuration a change file names.
Targets(file) == {i \in 1..Len(packages) : Names(file, KeyOf(packages[i]))}

\* The pending changes of package i hold the change of this file.
PendingHolds(pending, i, file) ==
    \E k \in 1..Len(pending[i]) :
        /\ pending[i][k].source = "ChangeSet"
        /\ pending[i][k].change.unique_id = file.unique_id

\* How often remove_file was called on the file of this name.
TimesRemoved(removed, file_name) ==
    Cardinality({k \in 1..Len(removed) : removed[k] = file_name})

\* The files of the directory, none when the directory does not exist.
FilesOf(dir) == IF dir = None THEN {} ELSE {dir[1][k] : k \in 1..Len(dir[1])}

\* C18: in a real run for a release that is not a prerelease, the file of
\* every change that goes to at least one configured package is deleted exactly
\* once in that run, also when the change names several packages, and the change
\* is among the pending changes of each of the packages it names.
C18_DeletedExactlyOnce ==
    [][(runs' # runs /\ ~runs'[Len(runs')].dry_run /\ ~runs'[Len(runs')].is_prerelease)
       => \A file \in FilesOf(changeset_dir) :
             Targets(file) # {}
             => /\ TimesRemoved(removed_files', file.unique_id \o <<".", "m", "d">>) = 1
                /\ file \notin FilesOf(changeset_dir')
                /\ \A i \in Targets(file) : PendingHolds(pending_changes', i, file)]_vars

\* C18 witness: a real run for a stable release has distributed the change of
\* file "b" to both packages "first" and "second" and deleted b.md.
C18_Witness ==
    /\ runs # <<>> /\ ~LastRun.dry_run /\ ~LastRun.is_prerelease
    /\ Len(packages) = 2
    /\ \E k \in 1..Len(removed_files) : removed_files[k] = <<"b", ".", "m", "d">>
    /\ \A i \in 1..2 : \E k \in 1..Len(pending_changes[i]) :
          /\ pending_changes[i][k].source = "ChangeSet"
          /\ pending_changes[i][k].change.unique_id = <<"b">>


\* Every run made so far was for a prerelease.
OnlyPrereleases(made) == \A k \in 1..Len(made) : made[k].is_prerelease

\* The change of this file went to every configured package the file names, and
\* remove_file was called on the file.
Consumed(file, pending, removed, dir) ==
    /\ \A i \in Targets(file) : PendingHolds(pending, i, file)
    /\ TimesRemoved(removed, file.unique_id \o <<".", "m", "d">>) > 0
    /\ file \notin FilesOf(dir)

\* C19: a run for a prerelease deletes no change file, so that after any number
\* of prerelease runs the directory is the one the first run found; the real run
\* for a stable release that follows them gives the change of every file naming
\* a configured package to the packages it names and deletes the file, and a
\* file leaves the directory only in a real run for a stable release that gave
\* its change to the packages it names.
C19_PrereleaseKeepsChangesets ==
    /\ [][(runs' # runs /\ runs'[Len(runs')].is_prerelease)
          => (changeset_dir' = changeset_dir /\ removed_files' = <<>>)]_vars
    /\ \A dir \in ChangesetDirs :
          (changeset_dir = dir) => [](OnlyPrereleases(runs) => changeset_dir = dir)
    /\ [][(/\ runs' # runs /\ runs # <<>> /\ OnlyPrereleases(runs)
           /\ ~runs'[Len(runs')].is_prerelease /\ ~runs'[Len(runs')].dry_run)
          => \A file \in FilesOf(changeset_dir) :
                Targets(file) # {}
                => Consumed(file, pending_changes', removed_files', changeset_dir')]_vars
    /\ [][\A file \in FilesOf(changeset_dir) \ FilesOf(changeset_dir') :
             /\ ~runs'[Len(runs')].is_prerelease /\ ~runs'[Len(runs')].dry_run
             /\ Targets(file) # {}
             /\ Consumed(file, pending_changes', removed_files', changeset_dir')]_vars

\* C19 witness: two runs for a prerelease, one of them real, were followed by a
\* real run for a stable release, which gave the change of file "c" to the
\* package "second" and deleted c.md.
C19_Witness ==
    /\ Len(runs) = 3
    /\ runs[1].is_prerelease /\ runs[2].is_prerelease
    /\ ~runs[1].dry_run \/ ~runs[2].dry_run
    /\ ~runs[3].is_prerelease /\ ~runs[3].dry_run
    /\ Len(packages) = 2
    /\ \E k \in 1..Len(removed_files) : removed_files[k] = <<"c", ".", "m", "d">>
    /\ \E k \in 1..Len(pending_changes[2]) :
          /\ pending_changes[2][k].source = "ChangeSet"
          /\ pending_changes[2][k].change.unique_id = <<"c">>


\* impl From<&changesets::ChangeType> for ChangeType
ChangeTypeFrom(value) ==
    CASE value = "Major" -> "Breaking"
      [] value = "Minor" -> "Feature"
      [] value = "Patch" -> "Fix"

\* The change type a change file gives for the package of this key.
TypeGiven(file, key) ==
    LET k == CHOOSE k \in 1..Len(file.versioning) : file.versioning[k].package_name = key
    IN file.versioning[k].change_type

\* The changes a run appended to the pending changes of package i.
Appended(pending, i) ==
    SubSeq(pending[i], Len(InitialPending(packages)[i]) + 1, Len(pending[i]))

\* The changes among `changes` that come from the file of this id.
FromFile(changes, unique_id) ==
    {k \in 1..Len(changes) : changes[k].change.unique_id = unique_id}

\* C20: a run over an existing directory leaves each package the pending
\* changes it had and appends to them, for each change file that names the
\* package (by its name, or by "default" when it has no name), one change with
\* the change type the file gives for that package, and nothing else; a package
\* that no file names keeps its pending changes; and without a directory every
\* package keeps its pending changes.
C20_ChangesetDistribution ==
    [][runs' # runs
       => /\ Len(pending_changes') = Len(packages)
          /\ \A i \in 1..Len(packages) :
                LET key == KeyOf(packages[i])
                    before_run == InitialPending(packages)[i]
                    appended == Appended(pending_changes', i)
                IN /\ Len(pending_changes'[i]) >= Len(before_run)
                   /\ SubSeq(pending_changes'[i], 1, Len(before_run)) = before_run
                   /\ \A k \in 1..Len(appended) :
                         /\ appended[k].source = "ChangeSet"
                         /\ \E file \in FilesOf(changeset_dir) :
                               /\ file.unique_id = appended[k].change.unique_id
                               /\ Names(file, key)
                   /\ \A file \in FilesOf(changeset_dir) :
                         IF Names(file, key)
                         THEN /\ Cardinality(FromFile(appended, file.unique_id)) = 1
                              /\ \A k \in FromFile(appended, file.unique_id) :
                                    /\ appended[k].change.change_type = TypeGiven(file, key)
                                    /\ \A other \in {"Major", "Minor", "Patch"} :
                                          ChangeTypeFrom(appended[k].change.change_type)
                                             = ChangeTypeFrom(other)
                                          <=> other = TypeGiven(file, key)
                         ELSE FromFile(appended, file.unique_id) = {}
                   /\ (\A file \in FilesOf(changeset_dir) : ~Names(file, key))
                         => pending_changes'[i] = before_run
                   /\ changeset_dir = None => pending_changes'[i] = before_run]_vars

\* C20 witness: a run gave the package without a name the change of file "a",
\* which names "default", and nothing of file "d", which names another package.
C20_Witness ==
    /\ runs # <<>>
    /\ Len(packages) = 1 /\ packages[1].name = None
    /\ Len(pending_changes[1]) = 2
    /\ pending_changes[1][2].source = "ChangeSet"
    /\ pending_changes[1][2].change.unique_id = <<"a">>
    /\ pending_changes[1][2].change.change_type = "Major"
    /\ LastRun.is_prerelease
    /\ \E file \in FilesOf(changeset_dir) : file.unique_id = <<"d">>

---------------------------------------------------------------------------
(* Go modules (src/src/releases/go.rs): set_version(go_mod, new_version)    *)
(* records the major version of a module in the module line of its go.mod.  *)
(* The lines of the model's contents end in "\n".                           *)

RECURSIVE Lines(_)
\* str::lines: the pieces between the line feeds, without a last empty piece.
Lines(s) ==
    IF s = <<>> THEN <<>>
    ELSE LET i == IndexOf(s, "\n")
         IN IF i = 0 THEN <<s>>
            ELSE <<SubSeq(s, 1, i - 1)>> \o Lines(SubSeq(s, i + 1, Len(s)))

RECURSIVE SplitWhitespace(_)
\* str::split_whitespace: the pieces between runs of whitespace, none empty.
SplitWhitespace(s) ==
    IF s = <<>> THEN <<>>
    ELSE IF IsWhitespace(Head(s)) THEN SplitWhitespace(Tail(s))
    ELSE LET ends == {i \in 1..Len(s) : IsWhitespace(s[i])}
             i == IF ends = {} THEN Len(s) + 1
                  ELSE CHOOSE i \in ends : \A j \in ends : i <= j
         IN <<SubSeq(s, 1, i - 1)>> \o SplitWhitespace(SubSeq(s, i, Len(s)))

RECURSIVE Join(_, _)
\* [&str]::join(sep)
Join(parts, sep) ==
    IF parts = <<>> THEN <<>>
    ELSE IF Len(parts) = 1 THEN parts[1]
    ELSE parts[1] \o sep \o Join(Tail(parts), sep)

RECURSIVE Replace(_, _, _)
\* str::replace(from, to): every non-overlapping occurrence, left to right.
Replace(s, from, to) ==
    IF s = <<>> \/ from = <<>> THEN s
    ELSE IF StartsWith(s, from) THEN to \o Replace(SubSeq(s, Len(from) + 1, Len(s)), from, to)
    ELSE <<Head(s)>> \o Replace(Tail(s), from, to)

\* str::parse::<u64>: an optional "+" and then digits; None otherwise.  The
\* numbers of the model are far below the range of u64.
ParseU64(s) ==
    LET digits == IF s # <<>> /\ Head(s) = "+" THEN Tail(s) ELSE s
    IN IF digits # <<>> /\ AllDigits(digits) THEN Some(DigitsValue(digits, 0)) ELSE None

\* The first line that starts with "module ", if any.
ModuleLine(go_mod_content) ==
    LET lines == Lines(go_mod_content)
        found == {i \in 1..Len(lines) : StartsWith(lines[i], <<"m", "o", "d", "u", "l", "e", " ">>)}
    IN IF found = {} THEN None
       ELSE Some(lines[CHOOSE i \in found : \A j \in found : i <= j])

\* The major version the last part of a module path records, if any
\* (lines 22-30).
ExistingVersion(last_part) ==
    IF StartsWith(last_part, <<"v">>) THEN ParseU64(Tail(last_part)) ELSE None

\* Faulty variant: only major version 0 is left out of go.mod.
Unrecorded_OnlyZero(version) == version.major = 0

\* These major versions aren't recorded in go.mod (line 5).
Unrecorded(version) == version.major = 0 \/ version.major = 1

\* set_version(go_mod, new_version) once the module of the module line is known
\* (lines 18-45).
SetModule(go_mod_content, module_line, module, version) ==
    LET parts == Split(module, "/")
        last_part == parts[Len(parts)]
        existing_version == ExistingVersion(last_part)
        new_version_string == <<"v">> \o FormatNum(version.major)
    IN IF IsSome(existing_version)
       THEN IF Unwrap(existing_version) = version.major
            THEN Ok(go_mod_content)
            ELSE Ok(Replace(go_mod_content, module_line,
                            <<"m", "o", "d", "u", "l", "e", " ">> \o Join([parts EXCEPT ![Len(parts)] = new_version_string],
                                             <<"/">>)))
       ELSE Ok(Replace(go_mod_content, module_line,
                       <<"m", "o", "d", "u", "l", "e", " ">> \o module \o <<"/">> \o new_version_string))

\* pub(crate) fn set_version(go_mod: String, new_version: &Version)
go_set_version(go_mod_content, version) ==
    IF Unrecorded(version) THEN Ok(go_mod_content)
    ELSE LET module_line == ModuleLine(go_mod_content)
         IN IF ~IsSome(module_line) THEN Err("MissingModuleLine", go_mod_content)
            ELSE LET words == SplitWhitespace(Unwrap(module_line))
                 IN IF Len(words) < 2
                    THEN Err("MalformedModuleLine", go_mod_content)
                    ELSE SetModule(go_mod_content, Unwrap(module_line), words[2], version)

\* The module lines of the model; some are no module line, one has no path.
\* A major version is written as Go writes it, without a sign or leading zero.
ModuleLines ==
    {<<"m", "o", "d", "u", "l", "e", " ", "a">>,
     <<"m", "o", "d", "u", "l", "e", " ", "a", "/", "v", "2">>,
     <<"m", "o", "d", "u", "l", "e", " ", "a", "/", "v", "3">>,
     <<"m", "o", "d", "u", "l", "e", " ", "a", "/", "b">>,
     <<"m", "o", "d", "u", "l", "e", " ", "a", "/", "v", "x">>,
     <<"m", "o", "d", "u", "l", "e", " ", "v", "2">>,
     <<"m", "o", "d", "u", "l", "e", " ">>,
     <<"m", "o", "d", "u", "l", "e", " ", "a", "/", "v", "2", " ", "/", "/", " ", "c">>,
     <<"m", "o", "d", "u", "l", "e", " ", " ", "a", "/", "v", "1", "2">>,
     <<"m", "o", "d", "u", "l", "e", "s", " ", "a">>,
     <<"g", "o", " ", "1">>,
     <<"m", "o", "d", "u", "l", "e", " ", "a", "/", "v">>}

\* What comes before and after the module line in the model's contents.
BeforeModule == {<<>>, <<"/", "/", " ", "m", "o", "d", "u", "l", "e", " ", "a", "\n">>}
AfterModule == {<<>>, <<"g", "o", " ", "1", "\n">>, <<"r", "e", "q", "u", "i", "r", "e", " ", "a", "/", "v", "2", "\n">>}

GoMods ==
    {b \o l \o <<"\n">> \o a : b \in BeforeModule, l \in ModuleLines, a \in AfterModule}

\* The versions set: every major up to MaxGoMajor.
GoVersions ==
    {Version(major, 0, 0, <<>>) : major \in 0..MaxGoMajor}

InitGo ==
    /\ go_mod \in GoMods
    /\ new_version \in GoVersions
    /\ go_result = None
    /\ BumpIdle
    /\ TagsIdle
    /\ CommitsIdle
    /\ RunIdle
    /\ PackageIdle
    /\ VersionIdle
    /\ HistoryIdle

\* go::set_version(go_mod, &new_version)
GoSetVersion ==
    /\ go_result = None
    /\ go_result' = Some(go_set_version(go_mod, new_version))
    /\ UNCHANGED <<go_mod, new_version>>
    /\ UNCHANGED <<bumpVars, tagVars, commitVars, runVars, changesetVars, packageVars,
                   versionVars, historyVars>>

NextGo == GoSetVersion

SpecGo == InitGo /\ [][NextGo]_vars


\* The path the module line of a go.mod names, if it has such a line and path.
ModulePath(content) ==
    LET module_line == ModuleLine(content)
    IN IF module_line = None THEN None
       ELSE LET words == SplitWhitespace(module_line[1])
            IN IF Len(words) < 2 THEN None ELSE Some(words[2])

\* The segments of a module path, and whether a segment is v<number>.
Segments(path) == Split(path, "/")
IsMajorSegment(segment) ==
    /\ Len(segment) >= 2
    /\ segment[1] = "v"
    /\ \A i \in 2..Len(segment) : IsDigit(segment[i])
MajorSegment(n) == <<"v">> \o FormatNum(n)

\* C24: set_version returns a go.mod unchanged for the majors 0 and 1; for a
\* major N >= 2 the module path of the result ends in the segment vN, which is
\* appended when the last segment of the path is not v<number>, put in the place
\* of the last segment when that is v<M> with M # N, and the content is returned
\* unchanged when the last segment is vN already; without a module line, or with
\* a module line that names no path, set_version fails when N >= 2.
C24_GoModuleRule ==
    go_result # None
    => LET result == go_result[1]
           n == new_version.major
           path == ModulePath(go_mod)
       IN IF n \in {0, 1} THEN result.kind = "Ok" /\ result.value = go_mod
          ELSE IF path = None THEN result.kind = "Err"
          ELSE LET segments == Segments(path[1])
                   last_segment == segments[Len(segments)]
                   set == ModulePath(result.value)
               IN /\ result.kind = "Ok"
                  /\ set # None
                  /\ LET now == Segments(set[1])
                     IN /\ now[Len(now)] = MajorSegment(n)
                        /\ IF ~IsMajorSegment(last_segment)
                           THEN now = Append(segments, MajorSegment(n))
                           ELSE IF last_segment # MajorSegment(n)
                           THEN now = [segments EXCEPT ![Len(segments)] = MajorSegment(n)]
                           ELSE result.value = go_mod

\* C24 witness: the module a/v2 was set to major 3 and is now a/v3, in a go.mod
\* with a line before and a line after the module line.
C24_Witness ==
    /\ go_result # None
    /\ new_version.major = 3
    /\ go_mod = <<"/", "/", " ", "m", "o", "d", "u", "l", "e", " ", "a", "\n", "m", "o", "d", "u", "l", "e", " ", "a", "/", "v", "2", "\n", "g", "o", " ", "1", "\n">>
    /\ go_result[1].kind = "Ok"
    /\ go_result[1].value = <<"/", "/", " ", "m", "o", "d", "u", "l", "e", " ", "a", "\n", "m", "o", "d", "u", "l", "e", " ", "a", "/", "v", "3", "\n", "g", "o", " ", "1", "\n">>

---------------------------------------------------------------------------
(* Packages and their versioned files: Package::new and Package::get_version *)
(* (src/crates/knope-versioning/src/package.rs), and get_version,            *)
(* bump_version and set_version of src/src/releases/semver.rs as             *)
(* prepare_release_for_package calls them, package after package.            *)

\* A versioned file: its path, the version string it holds and, for a go.mod,
\* its content.
VersionedFile(path, version, content) ==
    [path |-> path, version |-> version, content |-> content]

\* VersionedFile::version: the version the file reports.
FileVersion(file) == ParseVersion(file.version)

\* Faulty variant: the last file that differs is taken for the conflict.
Conflict_Last(files) ==
    LET differs == {i \in 1..Len(files) : FileVersion(files[i]) # FileVersion(files[1])}
    IN IF differs = {} THEN 0 ELSE CHOOSE i \in differs : \A j \in differs : j <= i

\* versioned_files.iter().find(|f| f.version() != first.version()): the index of
\* the first file that differs from the first file, 0 if none does.
Conflict(files) ==
    LET differs == {i \in 1..Len(files) : FileVersion(files[i]) # FileVersion(files[1])}
    IN IF differs = {} THEN 0 ELSE CHOOSE i \in differs : \A j \in differs : i <= j

\* Result<Package, NewError>
NewResult(kind, versioned, first, conflict) ==
    [kind |-> kind, versioned_files |-> versioned, first |-> first, conflict |-> conflict]

\* Package::new(versioned_files)
Package_new(files) ==
    IF files = <<>> THEN NewResult("NoPackages", <<>>, None, None)
    ELSE LET conflict == Conflict(files)
         IN IF conflict # 0
            THEN NewResult("InconsistentVersions", <<>>, Some(files[1]),
                           Some(files[conflict]))
            ELSE NewResult("Ok", files, None, None)

\* Package::get_version(&self)
Package_get_version(pkg) == FileVersion(pkg.versioned_files[1])

\* One step of the reduce of get_version (semver.rs, lines 117-129).
ReduceStep(accumulator, file) ==
    LET version == FileVersion(file)
    IN IF accumulator.kind # "Ok" THEN accumulator
       ELSE IF version = None THEN Err("InvalidSemanticVersion", file.version)
       ELSE IF Unwrap(version) = accumulator.value THEN accumulator
       ELSE Err("InconsistentVersions", <<file.version, FormatVersion(accumulator.value)>>)

RECURSIVE ReduceFrom(_, _, _)
ReduceFrom(accumulator, files, i) ==
    IF i > Len(files) THEN accumulator
    ELSE ReduceFrom(ReduceStep(accumulator, files[i]), files, i + 1)

\* The version the versioned files agree on (lines 107-130): Ok(None) without
\* files, Ok(Some(version)), or the first error.
StableVersionOf(files) ==
    IF files = <<>> THEN Ok(None)
    ELSE LET first == IF FileVersion(files[1]) = None
                      THEN Err("InvalidSemanticVersion", files[1].version)
                      ELSE Ok(Unwrap(FileVersion(files[1])))
             reduced == ReduceFrom(first, files, 2)
         IN IF reduced.kind = "Ok" THEN Ok(Some(reduced.value)) ELSE reduced

\* Faulty variant: a prerelease version in the files is taken for the stable one.
get_version_PreAsStable(files, from_tag) ==
    LET stable_version == StableVersionOf(files)
    IN IF stable_version.kind # "Ok" THEN stable_version
       ELSE IF stable_version.value = None
       THEN Ok(IF IsSome(from_tag) THEN Unwrap(from_tag)
               ELSE CurrentVersions(Version(0, 0, 0, <<>>), None))
       ELSE Ok(CurrentVersions(Unwrap(stable_version.value), None))

\* get_version (semver.rs, lines 98-151) for the versioned files of the package
\* and the versions get_current_versions_from_tag finds.
get_version(files, from_tag) ==
    LET stable_version == StableVersionOf(files)
    IN IF stable_version.kind # "Ok" THEN stable_version
       ELSE IF stable_version.value = None
       THEN Ok(IF IsSome(from_tag) THEN Unwrap(from_tag)
               ELSE CurrentVersions(Version(0, 0, 0, <<>>), None))
       ELSE IF Unwrap(stable_version.value).pre = <<>>
       THEN Ok(CurrentVersions(Unwrap(stable_version.value), None))
       ELSE Ok(CurrentVersions(IF IsSome(from_tag) THEN Unwrap(from_tag).stable
                               ELSE Version(0, 0, 0, <<>>),
                               stable_version.value))

\* versioned_file.set_version(&version): the file with the version written; a
\* go.mod is set by the rule of Go modules, which can fail.
SetFile(file, version) ==
    IF file.content = None THEN Ok([file EXCEPT !.version = FormatVersion(version)])
    ELSE LET set == go_set_version(Unwrap(file.content), version)
         IN IF set.kind = "Ok"
            THEN Ok([file EXCEPT !.version = FormatVersion(version),
                                 !.content = Some(set.value)])
            ELSE Err(set.err, file)

\* What set_version did: Ok or the error, and the files as it left them.
SetResult(kind, files) == [kind |-> kind, files |-> files]

RECURSIVE SetFrom(_, _, _)
\* for versioned_file in package.versioned_files { versioned_file.set_version(&version)?; }
\* from file i on.
SetFrom(files, version, i) ==
    IF i > Len(files) THEN SetResult("Ok", files)
    ELSE LET set == SetFile(files[i], version)
         IN IF set.kind = "Ok"
            THEN SetFrom([files EXCEPT ![i] = set.value], version, i + 1)
            ELSE SetResult(set.err, files)

\* set_version(package_version, dry_run) (semver.rs, lines 155-168)
set_version(versions, files, dry_run) ==
    IF dry_run THEN SetResult("Ok", files)
    ELSE SetFrom(files, latest(versions), 1)

\* Package::set_version(self, new_version, go_versioning): the actions that set
\* the files, one per file, or the first error (package.rs, lines 59-68).
Package_set_version(pkg, version) ==
    LET sets == [i \in 1..Len(pkg.versioned_files) |->
                    SetFile(pkg.versioned_files[i], version)]
        failed == {i \in 1..Len(sets) : sets[i].kind # "Ok"}
    IN IF failed = {} THEN Ok([i \in 1..Len(sets) |-> sets[i].value])
       ELSE Err(sets[CHOOSE i \in failed : \A j \in failed : i <= j].err, <<>>)


\* What bump_version did: Ok or the error, the files as it left them and the
\* version it returned.
Bumped(kind, files, version) == [kind |-> kind, files |-> files, version |-> version]

\* bump_version(rule, dry_run, package): get_version, bump and set_version; one
\* result for each outcome of bump.
bump_version(rule, dry_run, files) ==
    UNION {IF got.kind # "Ok" THEN {Bumped(got.err, files, None)}
           ELSE {IF outcome.kind # "Ok"
                 THEN Bumped(IF outcome.kind = "Err" THEN outcome.err ELSE "panic",
                             files, None)
                 ELSE LET set == set_version(outcome.value, files, dry_run)
                      IN Bumped(set.kind, set.files,
                                IF set.kind = "Ok" THEN Some(latest(outcome.value))
                                ELSE None) :
                 outcome \in bump(got.value, rule)} :
           got \in {get_version(files, None)}}

\* The versioned files a package of the model may have, in this order: a
\* Cargo.toml, a pyproject.toml and a go.mod, the last with or without a module
\* line.
CargoFiles == {VersionedFile(<<"C", "a", "r", "g", "o", ".", "t", "o", "m", "l">>, v, None) : v \in {<<"1", ".", "0", ".", "0">>, <<"1", ".", "1", ".", "0">>}}
PyprojectFiles == {VersionedFile(<<"p", "y", "p", "r", "o", "j", "e", "c", "t", ".", "t", "o", "m", "l">>, v, None) : v \in {<<"1", ".", "0", ".", "0">>, <<"1", ".", "1", ".", "0">>}}
GoModFiles == {VersionedFile(<<"g", "o", ".", "m", "o", "d">>, <<"1", ".", "0", ".", "0">>, Some(c)) : c \in {<<"m", "o", "d", "u", "l", "e", " ", "a", "\n">>, <<"g", "o", " ", "1", "\n">>}}

FileLists3 ==
    {c \o p \o g : c \in {<<>>} \cup {<<f>> : f \in CargoFiles},
                   p \in {<<>>} \cup {<<f>> : f \in PyprojectFiles},
                   g \in {<<>>} \cup {<<f>> : f \in GoModFiles}}

\* The files of a second package: none, one file, two that disagree, or two
\* that agree of which the go.mod has no module line.
SecondFileLists ==
    {<<>>,
     <<VersionedFile(<<"C", "a", "r", "g", "o", ".", "t", "o", "m", "l">>, <<"1", ".", "0", ".", "0">>, None)>>,
     <<VersionedFile(<<"C", "a", "r", "g", "o", ".", "t", "o", "m", "l">>, <<"1", ".", "0", ".", "0">>, None), VersionedFile(<<"p", "y", "p", "r", "o", "j", "e", "c", "t", ".", "t", "o", "m", "l">>, <<"1", ".", "1", ".", "0">>, None)>>,
     <<VersionedFile(<<"C", "a", "r", "g", "o", ".", "t", "o", "m", "l">>, <<"1", ".", "0", ".", "0">>, None), VersionedFile(<<"g", "o", ".", "m", "o", "d">>, <<"1", ".", "0", ".", "0">>, Some(<<"g", "o", " ", "1", "\n">>))>>}

\* The rule the commits give for a package, if any.
PackageRules == {None, Some("Minor"), Some("Major")}

InitPackage ==
    /\ \/ /\ package_files \in {<<l>> : l \in FileLists3}
          /\ rules \in {<<r>> : r \in PackageRules}
       \/ /\ package_files \in {<<l, s>> : l \in FileLists3, s \in SecondFileLists}
          /\ rules \in {<<r, s>> : r \in PackageRules, s \in {None, Some("Major")}}
    /\ files_at_start = package_files
    /\ package_index = 0
    /\ constructed = [i \in 1..Len(package_files) |-> None]
    /\ run_type \in {"DryRun", "Real"}
    /\ status = "running"
    /\ releases = <<>>
    /\ changelogs = [i \in 1..Len(package_files) |-> <<>>]
    /\ packages = <<>>
    /\ prerelease_label = None
    /\ workflow = <<>>
    /\ step_index = 0
    /\ analyses = <<>>
    /\ dry_run_stdout = <<>>
    /\ versioned_files = <<>>
    /\ git_tags = {}
    /\ commands_run = <<>>
    /\ changeset_dir = None
    /\ pending_changes = <<>>
    /\ removed_files = <<>>
    /\ runs = <<>>
    /\ BumpIdle
    /\ TagsIdle
    /\ CommitsIdle
    /\ GoIdle
    /\ VersionIdle
    /\ HistoryIdle

\* What an action on the packages leaves alone.
nonPackageVars ==
    <<bumpVars, tagVars, commitVars, changesetVars, goVars, versionVars, historyVars,
      packages,
      prerelease_label,
      workflow, step_index, analyses, dry_run_stdout, versioned_files, git_tags,
      commands_run>>

\* Package::new(versioned_files) for the files of package i.
New(i) ==
    /\ constructed[i] = None
    /\ constructed' = [constructed EXCEPT ![i] = Some(Package_new(package_files[i]))]
    /\ UNCHANGED <<package_files, files_at_start, rules, package_index, run_type, status,
                   releases, changelogs>>
    /\ UNCHANGED nonPackageVars

\* The end of update_project_from_conventional_commits, once package i is done.
StatusAfter(i, released) ==
    IF i < Len(package_files) THEN "running"
    ELSE IF run_type = "DryRun" THEN "Ok"
    ELSE IF released = <<>> THEN "NoRelease"
    ELSE "Ok"

\* One turn of `for package in &mut state.packages`: prepare_release_for_package
\* for the next package, with the rule its commits give.
PrepareReleaseForPackage ==
    /\ status = "running"
    /\ package_index < Len(package_files)
    /\ LET i == package_index + 1
       IN /\ package_index' = i
          /\ IF rules[i] = None
             THEN /\ status' = StatusAfter(i, releases)
                  /\ UNCHANGED <<package_files, releases, changelogs>>
             ELSE \E r \in bump_version(RuleFrom(Unwrap(rules[i])), run_type = "DryRun",
                                        package_files[i]) :
                     /\ package_files' = [package_files EXCEPT ![i] = r.files]
                     /\ IF r.kind # "Ok"
                        THEN /\ status' = r.kind
                             /\ UNCHANGED <<releases, changelogs>>
                        ELSE /\ releases' = Append(releases,
                                                   Release(Unwrap(r.version), <<>>, None))
                             /\ changelogs' =
                                   IF run_type = "DryRun" THEN changelogs
                                   ELSE [changelogs EXCEPT
                                           ![i] = Append(@, Unwrap(r.version))]
                             /\ status' = StatusAfter(i, releases')
    /\ UNCHANGED <<files_at_start, rules, constructed, run_type>>
    /\ UNCHANGED nonPackageVars

NextPackage == (\E i \in 1..Len(package_files) : New(i)) \/ PrepareReleaseForPackage

SpecPackage == InitPackage /\ [][NextPackage]_vars


---------------------------------------------------------------------------
(* Claims about packages and their versioned files.                        *)

\* Every file of the list reports the same version.
SameVersions(files) ==
    \A j, k \in 1..Len(files) : FileVersion(files[j]) = FileVersion(files[k])

\* File c is the first of the list that differs from the first file.
FirstThatDiffers(files, c) ==
    /\ c \in 2..Len(files)
    /\ FileVersion(files[c]) # FileVersion(files[1])
    /\ \A j \in 1..(c - 1) : FileVersion(files[j]) = FileVersion(files[1])

\* What Package::new must return for these files.
NewAsClaimed(files, result) ==
    /\ result.kind = "Ok" <=> (files # <<>> /\ SameVersions(files))
    /\ files = <<>> => result.kind = "NoPackages"
    /\ (files # <<>> /\ ~SameVersions(files))
          => /\ result.kind = "InconsistentVersions"
             /\ result.first = Some(files[1])
             /\ \E c \in 2..Len(files) :
                   FirstThatDiffers(files, c) /\ result.conflict = Some(files[c])
    /\ result.kind = "Ok"
          => /\ result.versioned_files = files
             /\ Package_get_version(result) # None
             /\ \A j \in 1..Len(files) : FileVersion(files[j]) = Package_get_version(result)

\* What get_version of semver.rs must return for files that are not none.
GetVersionAsClaimed(files, got) ==
    /\ got.kind = "Ok" <=> SameVersions(files)
    /\ got.kind = "Ok"
          => \A j \in 1..Len(files) : FileVersion(files[j]) = Some(latest(got.value))

\* C21: Package::new succeeds exactly for a list of versioned files that is not
\* empty and whose files all report one version; an empty list fails with
\* NoPackages, a disagreement with InconsistentVersions carrying the first file
\* and the first file that differs from it; and get_version of a package
\* constructed returns the version every file of it reports.  get_version of
\* semver.rs, for files that are not none, succeeds under the same condition
\* with that version.
C21_PackageConstruction ==
    [][\A i \in 1..Len(package_files) :
          (constructed[i] = None /\ constructed'[i] # None)
          => /\ NewAsClaimed(package_files[i], constructed'[i][1])
             /\ package_files[i] # <<>>
                   => GetVersionAsClaimed(package_files[i],
                                          get_version(package_files[i], None))]_vars

\* C21 witness: Package::new was called for three files of which the second and
\* the third differ from the first, and for no file.
C21_Witness ==
    /\ Len(constructed) = 2
    /\ constructed[1] # None /\ constructed[2] # None
    /\ constructed[1][1].kind = "InconsistentVersions"
    /\ constructed[1][1].first = Some(VersionedFile(<<"C", "a", "r", "g", "o", ".", "t", "o", "m", "l">>, <<"1", ".", "1", ".", "0">>, None))
    /\ constructed[1][1].conflict = Some(VersionedFile(<<"p", "y", "p", "r", "o", "j", "e", "c", "t", ".", "t", "o", "m", "l">>, <<"1", ".", "0", ".", "0">>, None))
    /\ Len(package_files[1]) = 3
    /\ constructed[2][1].kind = "NoPackages"


\* The run is over a package whose versioned files disagree on the version.
Doomed == \E i \in 1..Len(files_at_start) : ~SameVersions(files_at_start[i])

\* No changelog got a section.
ChangelogsUntouched == \A i \in 1..Len(changelogs) : changelogs[i] = <<>>

\* C22: a run over a package whose versioned files disagree on the current
\* version ends in an error, dry or real, and leaves every versioned file and
\* changelog as it was before the run.
C22_DoomedRunTouchesNothing ==
    Doomed => /\ status # "Ok"
              /\ package_files = files_at_start
              /\ ChangelogsUntouched

\* The files of a doomed run that were changed before the run failed: the first
\* package was bumped and written, then the second was found to disagree.
C22_MutatedBeforeFailure ==
    /\ Doomed
    /\ status = "InconsistentVersions"
    /\ package_files # files_at_start
    /\ ~ChangelogsUntouched

\* The versioned files of package i all hold this version.
AllSetTo(files, version) ==
    \A j \in 1..Len(files) : files[j].version = FormatVersion(version)

\* C23: setting the version of a package is atomic across its versioned files:
\* once the files of a package were set, either every one of them holds the new
\* version, or, when setting a file failed, none of them was changed.
C23_SetVersionAtomic ==
    [][\A i \in 1..Len(package_files) :
          package_files'[i] # package_files[i]
          => /\ status' \in {"running", "Ok"}
             /\ releases' # releases
             /\ AllSetTo(package_files'[i], releases'[Len(releases')].version)]_vars

\* Setting the version failed at the go.mod after the Cargo.toml was written.
C23_HalfSet ==
    /\ status = "MissingModuleLine"
    /\ Len(package_files) = 1
    /\ files_at_start[1] = <<VersionedFile(<<"C", "a", "r", "g", "o", ".", "t", "o", "m", "l">>, <<"1", ".", "0", ".", "0">>, None),
                             VersionedFile(<<"g", "o", ".", "m", "o", "d">>, <<"1", ".", "0", ".", "0">>, Some(<<"g", "o", " ", "1", "\n">>))>>
    /\ package_files[1] = <<VersionedFile(<<"C", "a", "r", "g", "o", ".", "t", "o", "m", "l">>, <<"2", ".", "0", ".", "0">>, None),
                            VersionedFile(<<"g", "o", ".", "m", "o", "d">>, <<"1", ".", "0", ".", "0">>, Some(<<"g", "o", " ", "1", "\n">>))>>

---------------------------------------------------------------------------
(* Versions of the knope crate and their string form                       *)
(* (src/crates/knope/src/step/releases/semver/version.rs): Display and      *)
(* FromStr for Version and Prerelease.                                      *)

\* StableVersion { major, minor, patch }
StableVersion(major, minor, patch) == [major |-> major, minor |-> minor, patch |-> patch]

\* Prerelease::new(label, version)
Prerelease_new(label, version) == [label |-> label, version |-> version]

\* Version::new(major, minor, patch, pre): Version::Stable or Version::Pre.
Version_new(major, minor, patch, pre) ==
    [stable_component |-> StableVersion(major, minor, patch), pre_component |-> pre]

\* Display for Prerelease: "{label}.{version}"
DisplayPrerelease(pre) == pre.label \o <<".">> \o FormatNum(pre.version)

\* Display for Version
DisplayVersion(v) ==
    LET stable == v.stable_component
        core == FormatNum(stable.major) \o <<".">> \o FormatNum(stable.minor)
                    \o <<".">> \o FormatNum(stable.patch)
    IN IF IsSome(v.pre_component)
       THEN core \o <<"-">> \o DisplayPrerelease(Unwrap(v.pre_component))
       ELSE core

\* str::split_once(c): None, or the text before and after the first c.
SplitOnce(s, c) ==
    LET i == IndexOf(s, c)
    IN IF i = 0 THEN None ELSE Some(<<SubSeq(s, 1, i - 1), SubSeq(s, i + 1, Len(s))>>)

\* s.split_once('.') of FromStr for Prerelease
PrereleaseParts(s) == SplitOnce(s, ".")

\* FromStr for Prerelease
PrereleaseFromStr(s) ==
    LET parts == PrereleaseParts(s)
    IN IF parts = None THEN Err("Invalid prerelease", s)
       ELSE LET n == ParseU64(Unwrap(parts)[2])
            IN IF n = None THEN Err("invalid digit", s)
               ELSE Ok(Prerelease_new(Unwrap(parts)[1], Unwrap(n)))

\* FromStr for Version
VersionFromStr(s) ==
    LET split == SplitOnce(s, "-")
        core == IF split = None THEN s ELSE Unwrap(split)[1]
        pre == IF split = None THEN None ELSE Some(Unwrap(split)[2])
        parts == Split(core, ".")
        numbers == [i \in 1..Len(parts) |-> ParseU64(parts[i])]
    IN IF \E i \in 1..Len(parts) : numbers[i] = None THEN Err("invalid digit", s)
       ELSE IF Len(parts) # 3 THEN Err("Version must have exactly 3 parts", s)
       ELSE IF pre = None
       THEN Ok(Version_new(Unwrap(numbers[1]), Unwrap(numbers[2]), Unwrap(numbers[3]), None))
       ELSE LET parsed == PrereleaseFromStr(Unwrap(pre))
            IN IF parsed.kind # "Ok" THEN parsed
               ELSE Ok(Version_new(Unwrap(numbers[1]), Unwrap(numbers[2]),
                                   Unwrap(numbers[3]), Some(parsed.value)))

\* The labels of the model: Label wraps any String, so also the empty one and
\* labels holding "-" or ".".
AnyLabels == {<<"r", "c">>, <<>>, <<"a", "-", "b">>, <<"a", ".", "b">>, <<"1">>}

\* The versions Version::new and Prerelease::new construct.
ConstructibleVersions ==
    {Version_new(major, minor, patch, pre) :
        major \in 0..MaxMajor, minor \in 0..MaxMinor, patch \in 0..MaxPatch,
        pre \in {None} \cup {Some(Prerelease_new(label, n)) :
                               label \in AnyLabels, n \in {0, 1, 10}}}

InitVersion ==
    /\ a_version \in {Some(v) : v \in ConstructibleVersions}
    /\ displayed = None
    /\ from_str = None
    /\ BumpIdle
    /\ TagsIdle
    /\ CommitsIdle
    /\ RunIdle
    /\ GoIdle
    /\ PackageIdle
    /\ HistoryIdle

\* version.to_string()
Display ==
    /\ displayed = None
    /\ displayed' = Some(DisplayVersion(Unwrap(a_version)))
    /\ UNCHANGED <<a_version, from_str>>
    /\ UNCHANGED <<bumpVars, tagVars, commitVars, runVars, changesetVars, goVars,
                   packageVars, historyVars>>

\* Version::from_str(&displayed)
FromStr ==
    /\ displayed # None
    /\ from_str = None
    /\ from_str' = Some(VersionFromStr(Unwrap(displayed)))
    /\ UNCHANGED <<a_version, displayed>>
    /\ UNCHANGED <<bumpVars, tagVars, commitVars, runVars, changesetVars, goVars,
                   packageVars, historyVars>>

NextVersion == Display \/ FromStr

SpecVersion == InitVersion /\ [][NextVersion]_vars

\* C25: formatting a constructible version with Display and parsing the text
\* with from_str succeeds and gives a version equal to the original, whatever
\* the label and the suffix of its prerelease.
C25_RoundTrip ==
    from_str # None => from_str[1] = Ok(a_version[1])


\* The round trip of the versions whose label holds no ".".
C25_RoundTripWithoutDot ==
    (/\ from_str # None
     /\ a_version[1].pre_component # None
           => IndexOf(a_version[1].pre_component[1].label, ".") = 0)
    => from_str[1] = Ok(a_version[1])

---------------------------------------------------------------------------
(* Further claims about bump.                                              *)

\* The existing prerelease of the input is for the version the rule targets.
SameTarget(cv, stable_rule) ==
    /\ IsSome(cv.prerelease)
    /\ StableCmp(Unwrap(cv.prerelease), ExpectedStable(cv.stable, stable_rule)) = 0

\* The prerelease string is not of the form label.n with a number n, or its n
\* is the last of the integer range, so that n + 1 exceeds it.
Unincrementable(pre) ==
    LET parts == Split(pre, ".")
    IN \/ Len(parts) # 2
       \/ parts[2] = <<>>
       \/ ~AllDigits(parts[2])
       \/ DigitsValue(parts[2], 0) >= U16Max

\* C26: when the existing prerelease for the version the rule targets is not of
\* the form label.n with a number n, or its number cannot be incremented within
\* the integer range, bump by Pre returns an error: it neither wraps, nor
\* aborts, nor restarts the numbering at 0.
C26_NoCoercion ==
    (/\ Called
     /\ LastRule.rule = "Pre"
     /\ SameTarget(LastInput, LastRule.stable_rule)
     /\ Unincrementable(Unwrap(LastInput.prerelease).pre))
    => LastOutcome.kind = "Err"

\* A prerelease "rc" for the targeted version was silently followed by rc.0.
C26_SilentRestart ==
    /\ LastOk
    /\ LastRule.rule = "Pre" /\ LastRule.label = <<"r", "c">>
    /\ SameTarget(LastInput, LastRule.stable_rule)
    /\ Unwrap(LastInput.prerelease).pre = <<"r", "c">>
    /\ Unwrap(package_version.prerelease).pre = <<"r", "c", ".", "0">>

---------------------------------------------------------------------------
(* A repository over time: commits are made, tags are set by hand, and     *)
(* the release and the prerelease workflow (PrepareRelease, then Release)  *)
(* are run on it again and again. The commits form one line; the          *)
(* repository lists its tags in the order of their names.                  *)

\* The commits a repository of the model holds at most.
MaxHistory == 2

\* The release workflows run on a repository of the model at most.
MaxReleases == 2

\* A tag: its name and the number of commits of the line it holds.
Ref(name, at) == [name |-> name, at |-> at]

RECURSIVE SortedNames(_)
\* The names in the order of Ord for String.
SortedNames(names) ==
    IF names = {} THEN <<>>
    ELSE LET first == CHOOSE x \in names : \A y \in names \ {x} : StrLess(x, y)
         IN <<first>> \o SortedNames(names \ {first})

\* references.tags(): the names of the tags, as the repository lists them.
list_tags(the_refs) == SortedNames({r.name : r \in the_refs})

\* get_commit_messages_after_tag(tag): the messages of the commits reachable
\* from HEAD and not from the tag, all messages without a tag; an error when
\* the repository has no tag of that name.
get_commit_messages_after_tag(tag, commits, the_refs) ==
    IF tag = None THEN Ok(commits)
    ELSE LET named == {r \in the_refs : r.name = Unwrap(tag)}
         IN IF named = {} THEN Err("Git", commits)
            ELSE Ok(SubSeq(commits, (CHOOSE r \in named : TRUE).at + 1, Len(commits)))

\* let tag = if target_version == StableVersion::default() { None }
\*           else { Some(ReleaseTag::new(&target_version.into(), package_name)) }
\* with the stable version the tags give (0.0.0 without one).
LastStableTag(from_tag) ==
    IF from_tag = None \/ Unwrap(from_tag).stable = Version(0, 0, 0, <<>>) THEN None
    ELSE Some(tag_name(Unwrap(from_tag).stable, None))

\* get_conventional_commits_after_last_stable_version(package_name, scopes, all_tags)
get_conventional_commits_after_last_stable_version(all_tags, commits, the_refs) ==
    get_commit_messages_after_tag(
        LastStableTag(get_current_versions_from_tag(None, all_tags)), commits, the_refs)

\* release(dry_run_stdout, release): repo.tag(tag_name(version), head,
\* PreviousValue::Any), which moves a tag of that name that exists.
Tagged(the_refs, version, head) ==
    {r \in the_refs : r.name # tag_name(version, None)}
        \cup {Ref(tag_name(version, None), head)}

\* What a release workflow saw and did: the label of the run, the tags and the
\* number of commits before it, the messages analysed, the rule they gave, the
\* current versions resolved, the status and the version released.
Workflow(label, the_refs, head, files, messages, rule, current, kind, version) ==
    [label |-> label, refs |-> the_refs, head |-> head, files |-> files,
     messages |-> messages, rule |-> rule, current |-> current, kind |-> kind,
     version |-> version]

\* The package of the repository: no name and no scopes.
ThePackage == [name |-> None, scopes |-> None]

\* The messages committed in the model: a feature and a breaking feature.
HistoryCommits ==
    {Subject(FEAT, None, FALSE, <<"b">>),
     Subject(FEAT, None, TRUE, <<"c">>)}

\* The label of the prerelease workflow.
HistoryLabel == <<"r", "c">>

\* The tag set by hand: a prerelease of the next minor version after 1.0.0.
HandTags == {<<"v", "1", ".", "1", ".", "0", "-", "r", "c", ".", "0">>}

\* The Cargo.toml of the package with a version.
CargoToml(v) == VersionedFile(<<"C", "a", "r", "g", "o", ".", "t", "o", "m", "l">>, v, None)

\* The repositories the model starts from: a package without a versioned file
\* and without a release, or the release 1.0.0 tagged, with the Cargo.toml at
\* 1.0.0 or without a versioned file, and with or without the tag of an early
\* prerelease of 2.0.0.
InitialRepositories ==
    {[files |-> <<>>, refs |-> {}],
     [files |-> <<>>, refs |-> {Ref(<<"v", "1", ".", "0", ".", "0">>, 0)}],
     [files |-> <<CargoToml(<<"1", ".", "0", ".", "0">>)>>,
      refs |-> {Ref(<<"v", "1", ".", "0", ".", "0">>, 0)}],
     [files |-> <<CargoToml(<<"1", ".", "0", ".", "0">>)>>,
      refs |-> {Ref(<<"v", "1", ".", "0", ".", "0">>, 0),
                Ref(<<"v", "2", ".", "0", ".", "0", "-", "r", "c", ".", "0">>, 0)}]}

InitHistory ==
    /\ history = <<>>
    /\ \E repo \in InitialRepositories :
          /\ refs = repo.refs
          /\ cargo_toml = repo.files
    /\ release_count = 0
    /\ last_release = None
    /\ BumpIdle
    /\ TagsIdle
    /\ CommitsIdle
    /\ RunIdle
    /\ GoIdle
    /\ PackageIdle
    /\ VersionIdle

\* What an action on the repository leaves alone.
nonHistoryVars ==
    <<bumpVars, tagVars, commitVars, runVars, changesetVars, goVars, packageVars,
      versionVars>>

\* git commit -m message
GitCommit ==
    /\ Len(history) < MaxHistory
    /\ \E message \in HistoryCommits : history' = Append(history, message)
    /\ UNCHANGED <<refs, cargo_toml, release_count, last_release>>
    /\ UNCHANGED nonHistoryVars

\* git tag name
GitTag ==
    /\ \E name \in HandTags :
          /\ \A r \in refs : r.name # name
          /\ refs' = refs \cup {Ref(name, Len(history))}
    /\ UNCHANGED <<history, cargo_toml, release_count, last_release>>
    /\ UNCHANGED nonHistoryVars

\* The workflow of the steps PrepareRelease (with the label, if any) and
\* Release, run for real: the commits after the last stable tag give the rule,
\* bump_version resolves the current versions, bumps them and writes the
\* versioned files, and release sets the tag.
ReleaseWorkflow(label) ==
    /\ \E all_tags \in {list_tags(refs)} :
       \E from_tag \in {get_current_versions_from_tag(None, all_tags)} :
       \E messages \in
            {get_conventional_commits_after_last_stable_version(all_tags, history, refs)} :
       \E analysis \in {from_commit_messages(messages.value, FALSE, ThePackage)} :
       \E got \in {get_version(cargo_toml, from_tag)} :
          IF messages.kind # "Ok" \/ got.kind # "Ok" \/ analysis.rule = None
          THEN /\ last_release' =
                     Some(Workflow(label, refs, Len(history), cargo_toml, messages.value,
                                   analysis.rule, None,
                                   IF messages.kind # "Ok" THEN messages.err
                                   ELSE IF analysis.rule = None THEN "NoRelease"
                                   ELSE got.err, None))
               /\ UNCHANGED <<refs, cargo_toml, release_count>>
          ELSE /\ release_count < MaxReleases
               /\ release_count' = release_count + 1
               /\ \E rule \in {IF label = None THEN RuleFrom(Unwrap(analysis.rule))
                               ELSE PreRule(Unwrap(label), Unwrap(analysis.rule))} :
                  \E outcome \in bump(got.value, rule) :
                  IF outcome.kind # "Ok"
                  THEN /\ last_release' =
                             Some(Workflow(label, refs, Len(history), cargo_toml,
                                           messages.value, analysis.rule, Some(got.value),
                                           IF outcome.kind = "Err" THEN outcome.err
                                           ELSE "panic", None))
                       /\ UNCHANGED <<refs, cargo_toml>>
                  ELSE \E set \in {set_version(outcome.value, cargo_toml, FALSE)} :
                          /\ cargo_toml' = set.files
                          /\ refs' = IF set.kind = "Ok"
                                     THEN Tagged(refs, latest(outcome.value), Len(history))
                                     ELSE refs
                          /\ last_release' =
                                Some(Workflow(label, refs, Len(history), cargo_toml,
                                              messages.value, analysis.rule,
                                              Some(got.value), set.kind,
                                              IF set.kind = "Ok"
                                              THEN Some(latest(outcome.value))
                                              ELSE None))
    /\ UNCHANGED history
    /\ UNCHANGED nonHistoryVars

\* knope release
StableRelease == ReleaseWorkflow(None)

\* knope prerelease
Prerelease == ReleaseWorkflow(Some(HistoryLabel))

NextHistory == GitCommit \/ GitTag \/ StableRelease \/ Prerelease

SpecHistory == InitHistory /\ [][NextHistory]_vars

\* The last release workflow run, when there is one.
Released == IsSome(last_release)
LastRelease == Unwrap(last_release)

\* The version a tag of the unnamed package names, if it names one.
RefVersion(r) ==
    IF StartsWith(r.name, <<"v">>) THEN ParseVersion(SubSeq(r.name, 2, Len(r.name)))
    ELSE None

\* The tags of stable releases and of prereleases among the tags.
StableRefs(the_refs) ==
    {r \in the_refs : IsSome(RefVersion(r)) /\ Unwrap(RefVersion(r)).pre = <<>>}
PrereleaseRefs(the_refs) ==
    {r \in the_refs : IsSome(RefVersion(r)) /\ Unwrap(RefVersion(r)).pre # <<>>}

\* The tags of the stable releases made last: no stable tag holds more commits.
LastStableRefs(the_refs) ==
    {r \in StableRefs(the_refs) : \A o \in StableRefs(the_refs) : o.at <= r.at}

\* The commits made after the tag and before the run, all of them without a tag.
CommitsAfter(run, stable_refs) ==
    IF stable_refs = {} THEN SubSeq(history, 1, run.head)
    ELSE SubSeq(history, (CHOOSE r \in stable_refs : TRUE).at + 1, run.head)

\* The version of the last stable release, 0.0.0 without one.
LastStableVersion(stable_refs) ==
    IF stable_refs = {} THEN Version(0, 0, 0, <<>>)
    ELSE Unwrap(RefVersion(CHOOSE r \in stable_refs : TRUE))

\* The severity of the messages.
SeverityOf(messages) == MaxSeverity(SelectedCommits(messages, FALSE, ThePackage))

C27_WitnessAfterPrereleaseRun ==
    /\ Released /\ LastRelease.label = None /\ LastRelease.kind = "Ok"
    /\ LastRelease.files # <<>>
    /\ Unwrap(FileVersion(LastRelease.files[1])).pre # <<>>
    /\ PrereleaseRefs(LastRelease.refs) # {}

---------------------------------------------------------------------------
(* Further claims about the analysis of the commits.                       *)

\* The breaking text of the commit is its own description.
OwnDescription(commit) ==
    IsBreaking(commit) /\ Unwrap(commit.breaking_description) = commit.description

RECURSIVE BreakingTexts(_)
\* The breaking texts of the commits, one for each breaking commit.
BreakingTexts(commits) ==
    IF commits = <<>> THEN <<>>
    ELSE (IF IsBreaking(Head(commits))
          THEN <<Unwrap(Head(commits).breaking_description)>> ELSE <<>>)
         \o BreakingTexts(Tail(commits))

RECURSIVE DescriptionsOf(_, _)
\* The descriptions of the commits of the type, one for each commit whose
\* description is not recorded as its breaking text.
DescriptionsOf(commits, type) ==
    IF commits = <<>> THEN <<>>
    ELSE (IF Head(commits).type = type /\ ~OwnDescription(Head(commits))
          THEN <<Head(commits).description>> ELSE <<>>)
         \o DescriptionsOf(Tail(commits), type)

\* C28: the analysis records, commit by commit, the breaking text of each
\* breaking commit in breaking_changes, and the description of each feat commit
\* in features and of each fix commit in fixes, except where the description is
\* the breaking text of the commit, which is recorded in breaking_changes only.
C28_NoDuplicateDescriptions ==
    Analyzed =>
        /\ Analysis.breaking_changes = BreakingTexts(Selected)
        /\ Analysis.features = DescriptionsOf(Selected, FEAT)
        /\ Analysis.fixes = DescriptionsOf(Selected, FIX)

\* The commits "feat!: c", "fix: h" with the footer "BREAKING CHANGE: i" and
\* "feat: k" with the footer "BREAKING CHANGE: l" were analysed: c, i and l are
\* breaking changes, h is a fix, k is a feature and c is no feature.
C28_Witness ==
    /\ Analyzed
    /\ \E i, j \in 1..Len(Selected) :
          /\ OwnDescription(Selected[i]) /\ Selected[i].type = FEAT
          /\ IsBreaking(Selected[j]) /\ ~OwnDescription(Selected[j])
          /\ Selected[j].type = FIX
    /\ Analysis.breaking_changes = <<<<"c">>, <<"i">>, <<"l">>>>
    /\ Analysis.fixes = <<<<"h">>>>
    /\ Analysis.features = <<<<"k">>>>

---------------------------------------------------------------------------
(* Further claims about the resolution of the tags.                        *)

\* The tag the loop handles in this step.
ThisTag == tags[pos + 1]

\* The tag without its leading prefix.
Stripped(tag, p) == SubSeq(tag, Len(Pattern(p)) + 1, Len(tag))

\* The version a tag of package p names: the text after the leading prefix,
\* if the tag starts with the prefix and that text is a version.
NamedVersion(tag, p) ==
    IF StartsWith(tag, Pattern(p)) THEN ParseVersion(Stripped(tag, p)) ELSE None

\* The step of the loop took the tag for version v, or ignored it if v = None.
TookFor(v) ==
    IF v = None THEN stable_tag' = stable_tag /\ prerelease_tag' = prerelease_tag
    ELSE IF Unwrap(v).pre = <<>> THEN stable_tag' = v /\ prerelease_tag' = None
    ELSE /\ stable_tag' = stable_tag
         /\ prerelease_tag' = IF prerelease_tag = None THEN v ELSE prerelease_tag

\* C29: each tag is taken for the version that its text after the leading
\* prefix ("<name>/v" for a named package, "v" otherwise) spells, with no other
\* character of the tag altered; a tag that does not start with the prefix, or
\* whose remainder is no version, is ignored.
C29_LiteralPrefix ==
    [][pos' = pos + 1 => TookFor(NamedVersion(ThisTag, prefix))]_vars

\* The same for the tags in which the prefix occurs once only.
C29_LiteralPrefixOccurringOnce ==
    [][(pos' = pos + 1 /\ FindSub(Stripped(ThisTag, prefix), Pattern(prefix)) = 0)
          => TookFor(NamedVersion(ThisTag, prefix))]_vars

\* The tag v1.0.0-preview.1 was taken for the version 1.0.0-preiew.1.
C29_PreviewMisread ==
    /\ prefix = None
    /\ pos = 1 /\ tags[1] = <<"v", "1", ".", "0", ".", "0", "-", "p", "r", "e", "v", "i", "e", "w", ".", "1">>
    /\ prerelease_tag = Some(Version(1, 0, 0, <<"p", "r", "e", "i", "e", "w", ".", "1">>))

\* The tag is a prerelease of the stable version with the label.
PrereleaseOf(r, target, label) ==
    /\ IsSome(RefVersion(r))
    /\ StableCmp(Unwrap(RefVersion(r)), target) = 0
    /\ IsSome(ParsePrerelease(Unwrap(RefVersion(r)).pre))
    /\ Unwrap(ParsePrerelease(Unwrap(RefVersion(r)).pre)).label = label

\* C30: the version a prerelease workflow releases is label.n for its target
\* with n greater than the suffix of every tag that the repository already has
\* for that target and label, so it is a version that no tag names yet; an
\* older prerelease tag for a higher version does not change this.
C30_PrereleaseNotYetTagged ==
    (Released /\ LastRelease.label # None /\ LastRelease.kind = "Ok") =>
        \A released \in {Unwrap(LastRelease.version)} :
            /\ IsSome(ParsePrerelease(released.pre))
            /\ \A r \in LastRelease.refs :
                  PrereleaseOf(r, released, Unwrap(LastRelease.label)) =>
                      SuffixOf(Unwrap(RefVersion(r)).pre) < SuffixOf(released.pre)

\* The repository holds the tags v2.0.0-rc.0, v1.0.0 and, after a feature,
\* v1.1.0-rc.0, and the Cargo.toml is at 1.0.0; after another feature the
\* prerelease workflow released 1.1.0-rc.0, the version tagged already.
C30_ReleasedTaggedVersion ==
    /\ Released /\ LastRelease.label = Some(HistoryLabel) /\ LastRelease.kind = "Ok"
    /\ LastRelease.refs = {Ref(<<"v", "2", ".", "0", ".", "0", "-", "r", "c", ".", "0">>, 0), Ref(<<"v", "1", ".", "0", ".", "0">>, 0),
                           Ref(<<"v", "1", ".", "1", ".", "0", "-", "r", "c", ".", "0">>, 1)}
    /\ LastRelease.files = <<CargoToml(<<"1", ".", "0", ".", "0">>)>>
    /\ LastRelease.head = 2
    /\ LastRelease.version = Some(Version(1, 1, 0, <<"r", "c", ".", "0">>))

\* Without a versioned file and without a stable tag, two prerelease workflows
\* in a row released the same version.
C30_ReleasedTwice ==
    /\ Released /\ LastRelease.label = Some(HistoryLabel) /\ LastRelease.kind = "Ok"
    /\ LastRelease.files = <<>>
    /\ StableRefs(LastRelease.refs) = {}
    /\ \E r \in LastRelease.refs : RefVersion(r) = LastRelease.version

\* The same for the runs on a package with a versioned file, when no tag for
\* the target and label of the run names a version above that of the file.
C30_NotYetTaggedWhenFileFollows ==
    (/\ Released /\ LastRelease.label # None /\ LastRelease.kind = "Ok"
     /\ LastRelease.files # <<>>
     /\ \A r \in LastRelease.refs :
           PrereleaseOf(r, Unwrap(LastRelease.version), Unwrap(LastRelease.label)) =>
               VersionCmp(Unwrap(RefVersion(r)),
                          Unwrap(FileVersion(LastRelease.files[1]))) <= 0) =>
        \A r \in LastRelease.refs :
            PrereleaseOf(r, Unwrap(LastRelease.version), Unwrap(LastRelease.label)) =>
                SuffixOf(Unwrap(RefVersion(r)).pre)
                    < SuffixOf(Unwrap(LastRelease.version).pre)

=============================================================================
